---------------------------- MODULE Spec2Model ----------------------------
(***************************************************************************)
(* A model of the med-EVE reasoning core (backend/app.py and               *)
(* backend/core/*.py): the guardrail engine and the way the pipeline       *)
(* applies its patches, the evidence scorer, the stages that set a         *)
(* hypothesis confidence, the cross-turn merge of reasoner outputs, the    *)
(* knowledge-graph store, the dynamic extension of a subgraph by markers   *)
(* and symptom tokens, the sequence of pipeline steps, the worker and      *)
(* queue of a streamed run, and the process-wide current case and output.  *)
(*                                                                         *)
(* Conventions.  Python lists are TLA+ sequences; a Python index i is the  *)
(* position i + 1 of the sequence, and the model keeps the Python (0-based)*)
(* index wherever the code stores or compares one (patch paths).  Scores,  *)
(* weights and confidences are integers in hundredths (0.05 is 5).  A text *)
(* (an action task, a marker, a name) is one of a few concrete strings of  *)
(* the program or its tests; str.lower() and the substring tests of the    *)
(* code are tabulated for exactly these strings.                           *)
(***************************************************************************)
EXTENDS Integers, Sequences, FiniteSets, TLC

VARIABLES
    \* ---- guardrail step of _run_pipeline (app.py 317-370) ----
    reasoner_output,    \* the dict handed to check_guardrails, patched in place
    case_card,          \* [signals]
    normalized_labs,    \* sequence of [marker]
    guardrail_report,   \* result of check_guardrails
    gr_before,          \* reasoner_output as it was when the step began
    gr_recheck,         \* report of a second check_guardrails on the patched output
    gr_pc,              \* "idle" | "ready" | "patched" | "rechecked"
    \* ---- build_evidence (evidence_builder.py 121-220) ----
    ev_input,           \* [labs, signals, edges, model]: the arguments and the collaborator
    ev_events,          \* payloads of the SCORE_UPDATE events emitted so far
    evidence_bundle,    \* the returned bundle, None before the call returns
    ev_pc,              \* "idle" | "ready" | "done"
    \* ---- _merge_reasoner_output (app.py 568-622) ----
    mg_prev,            \* the stored output of the earlier turn (object or NoneObj)
    mg_new,             \* the output of this turn (object or NoneObj)
    mg_given,           \* [prev, new] as they were when the call was made
    mg_result,          \* the returned value, NoneObj before the call returns
    mg_pc,              \* "idle" | "ready" | "merged" | "mutated"
    \* ---- REASON and CRITIC steps of _run_pipeline, cross-turn merge ----
    rs_input,           \* [labs, case_card, model, turn]
    rs_bundle,          \* the evidence bundle, <<>> before EVIDENCE_SCORE
    rs_output,          \* reasoner_output, <<>> before the REASON step
    rs_critic_result,   \* the ops of the critic
    rs_pc,              \* "idle" | "ready" | "scored" | "reasoned" | "criticized" | "merged"
    \* ---- KGStore.subgraph_from_markers (kg_store.py 31-50) ----
    kg_input,           \* [marker_ids, hops, max_nodes]: the arguments of the call
    kg_subgraph,        \* the returned [nodes, edges], None before the call returns
    kg_pc,              \* "idle" | "ready" | "done"
    \* ---- _run_pipeline from LAB_NORMALIZE to CRITIC (app.py 208-316) ----
    pl_case,            \* [labs, symptom_tokens, model]: the case and the model manager
    pl_labs,            \* normalized_labs
    pl_case_card,       \* [abnormal_markers, abnormal_marker_node_ids, signals]
    pl_subgraph,        \* [nodes, edges], extended in place by CONTEXT_SELECT
    pl_additions,       \* suggested_kg_additions
    pl_symptoms,        \* [nodes, edges, unmappable] returned by map_symptoms_to_graph
    pl_bundle,          \* evidence_bundle
    pl_output,          \* reasoner_output
    pl_steps,           \* the steps started so far
    pl_pc,              \* "idle" | "start" | "normalized" | "selected" | "extended" |
                        \* "mapped" | "scored" | "reasoned" | "criticized" | "raised"
    \* ---- _stream_pipeline (app.py 672-727): the worker, the queue, the generator ----
    sm_run,             \* [raise_at, partial_ok]: what the calls of this run do
    sm_q,               \* q, the queue.Queue between runner() and gen()
    sm_put,             \* every item runner() has put on q, in the order of the puts
    sm_yielded,         \* the items gen() has yielded
    sm_emitted,         \* how many messages of _run_pipeline have been put
    sm_pc,              \* runner(): "idle" | "running" | "finally" | "done"
    sm_gen,             \* gen(): "idle" | "reading" | "stopped"
    \* ---- the process-wide cross-turn state (app.py 38-90) and its handlers ----
    current_case,       \* <<>> for None, else <<n>>: the case of request n
    current_output,     \* <<>> for None, else <<n>>: the output stored by request n
    current_output_json,\* output/current_output.json: <<>> when absent, else <<n>>
    requests,           \* per worker: the request it serves, [pc |-> "idle"] when none
    served              \* how many requests the process and its restarts have begun

guardVars == <<reasoner_output, case_card, normalized_labs, guardrail_report,
               gr_before, gr_recheck, gr_pc>>

evVars == <<ev_input, ev_events, evidence_bundle, ev_pc>>

mergeVars == <<mg_prev, mg_new, mg_given, mg_result, mg_pc>>

reasonVars == <<rs_input, rs_bundle, rs_output, rs_critic_result, rs_pc>>

kgVars == <<kg_input, kg_subgraph, kg_pc>>

plVars == <<pl_case, pl_labs, pl_case_card, pl_subgraph, pl_additions, pl_symptoms,
            pl_bundle, pl_output, pl_steps, pl_pc>>

streamVars == <<sm_run, sm_q, sm_put, sm_yielded, sm_emitted, sm_pc, sm_gen>>

stateVars == <<current_case, current_output, current_output_json, requests, served>>

\* what an action of one component leaves alone: the other components
notGuard == <<evVars, mergeVars, reasonVars, kgVars, plVars, streamVars, stateVars>>
notEv == <<guardVars, mergeVars, reasonVars, kgVars, plVars, streamVars, stateVars>>
notMerge == <<guardVars, evVars, reasonVars, kgVars, plVars, streamVars, stateVars>>
notReason == <<guardVars, evVars, mergeVars, kgVars, plVars, streamVars, stateVars>>
notKg == <<guardVars, evVars, mergeVars, reasonVars, plVars, streamVars, stateVars>>
notPl == <<guardVars, evVars, mergeVars, reasonVars, kgVars, streamVars, stateVars>>
notStream == <<guardVars, evVars, mergeVars, reasonVars, kgVars, plVars, stateVars>>
notState == <<guardVars, evVars, mergeVars, reasonVars, kgVars, plVars, streamVars>>

vars == <<reasoner_output, case_card, normalized_labs, guardrail_report,
          gr_before, gr_recheck, gr_pc,
          ev_input, ev_events, evidence_bundle, ev_pc,
          mg_prev, mg_new, mg_given, mg_result, mg_pc,
          rs_input, rs_bundle, rs_output, rs_critic_result, rs_pc,
          kg_input, kg_subgraph, kg_pc,
          pl_case, pl_labs, pl_case_card, pl_subgraph, pl_additions, pl_symptoms,
          pl_bundle, pl_output, pl_steps, pl_pc,
          sm_run, sm_q, sm_put, sm_yielded, sm_emitted, sm_pc, sm_gen,
          current_case, current_output, current_output_json, requests, served>>

None == "None"

(***************************************************************************)
(* Generic list helpers.                                                   *)
(***************************************************************************)
\* del lst[idx] for a Python index idx with 0 <= idx < len(lst)
DelAt(lst, idx) ==
    [j \in 1..(Len(lst) - 1) |-> IF j <= idx THEN lst[j] ELSE lst[j + 1]]

\* all sequences over S of length at most n
SeqsUpTo(S, n) == UNION {[1..k -> S] : k \in 0..n}

RECURSIVE Flatten(_)
Flatten(ss) == IF ss = <<>> THEN <<>> ELSE Head(ss) \o Flatten(Tail(ss))

Range(s) == {s[i] : i \in 1..Len(s)}

(***************************************************************************)
(* Texts: str.lower() and the `word in text` tests, tabulated.             *)
(***************************************************************************)
TaskDose == "Take iron 325mg supplement daily"
TaskStfr == "Consider sTfR test to differentiate between inflammation and iron deficiency"
TaskAsk  == "Ask clinician about sTfR or repeat iron studies"
TaskTestDose == "Test vitamin D dose response"
TaskTpo  == "Order TPO antibody test"

Lower(text) ==
    CASE text = TaskDose -> "take iron 325mg supplement daily"
      [] text = TaskStfr -> "consider stfr test to differentiate between inflammation and iron deficiency"
      [] text = TaskAsk  -> "ask clinician about stfr or repeat iron studies"
      [] text = TaskTestDose -> "test vitamin d dose response"
      [] text = TaskTpo  -> "order tpo antibody test"
      [] text = "Thyroid peroxidase antibodies (TPOAb)" -> "thyroid peroxidase antibodies (tpoab)"
      [] text = "Ferritin measurement" -> "ferritin measurement"
      [] text = "Ferritin" -> "ferritin"
      [] text = "TPO antibodies" -> "tpo antibodies"
      [] text = "hsCRP" -> "hscrp"
      [] text = "Hashimoto thyroiditis (likely)" -> "hashimoto thyroiditis (likely)"
      [] text = "Iron deficiency anemia (possible)" -> "iron deficiency anemia (possible)"
      [] OTHER -> text

\* the keywords of guardrails.py that occur as substrings of a lowercase text
Substrings(lowered) ==
    CASE lowered = "take iron 325mg supplement daily" -> {"iron", "supplement", "mg"}
      [] lowered = "consider stfr test to differentiate between inflammation and iron deficiency" -> {"iron", "test"}
      [] lowered = "ask clinician about stfr or repeat iron studies" -> {"iron"}
      [] lowered = "test vitamin d dose response" -> {"dose", "test"}
      [] lowered = "order tpo antibody test" -> {"test", "tpo", "antibody"}
      [] lowered = "thyroid peroxidase antibodies (tpoab)" -> {"tpo", "antibodies", "tpoab"}
      [] lowered = "t_tpo_ab" -> {"tpo"}
      [] lowered = "tpo antibodies" -> {"tpo", "antibodies"}
      [] lowered = "hashimoto thyroiditis (likely)" -> {"hashimoto"}
      [] lowered = "iron deficiency anemia (possible)" -> {"iron"}
      [] OTHER -> {}

In(word, lowered) == word \in Substrings(lowered)

(***************************************************************************)
(* guardrails.py                                                           *)
(***************************************************************************)
ALLOWED_BUCKETS == <<"tests", "scheduling", "questions for clinician", "low-risk defaults">>

ANTIBODY_KEYWORDS == {"tpo", "antibody", "antibodies", "tpoab", "anti-tpo"}

_task_in_allowed_buckets(task_lower) ==
    \/ In("test", task_lower)
    \/ \E b \in 1..Len(ALLOWED_BUCKETS) :
          ALLOWED_BUCKETS[b] # "tests" /\ In(ALLOWED_BUCKETS[b], task_lower)

\* the (failed rule, patch) pairs one action at Python index i adds, in order
ActionFindings(action, i, inflammation_pattern, scope) ==
    LET task_lower == Lower(action.task)
        rm == [op |-> "remove", path |-> <<scope, i>>, value |-> None]
    IN  (IF In("iron", task_lower) /\ In("supplement", task_lower) /\ inflammation_pattern
            THEN << [rule |-> [id |-> "GR_001", scope |-> scope], patch |-> rm] >>
            ELSE <<>>)
        \o
        (IF \E word \in {"mg", "dose", "supplement"} : In(word, task_lower)
            THEN << [rule |-> [id |-> "GR_003", scope |-> scope], patch |-> rm] >>
            ELSE <<>>)
        \o
        (IF ~_task_in_allowed_buckets(task_lower)
            THEN << [rule |-> [id |-> "GR_004", scope |-> scope], patch |-> rm] >>
            ELSE <<>>)

_apply_action_guardrails(actions, inflammation_pattern, scope) ==
    Flatten([k \in 1..Len(actions) |->
                ActionFindings(actions[k], k - 1, inflammation_pattern, scope)])

_contains_antibody_language(text) ==
    \E k \in ANTIBODY_KEYWORDS : In(k, Lower(text))

_has_antibody_confirmation(labs) ==
    \E k \in 1..Len(labs) : _contains_antibody_language(labs[k].marker)

_has_antibody_recommendation(out) ==
    \/ \E h \in 1..Len(out.hypotheses) :
          \E t \in 1..Len(out.hypotheses[h].next_tests) :
             \/ _contains_antibody_language(out.hypotheses[h].next_tests[t].label)
             \/ _contains_antibody_language(out.hypotheses[h].next_tests[t].test_id)
    \/ \E a \in Range(out.patient_actions \o out.novel_actions) :
          _contains_antibody_language(a.task)

_apply_hashimoto_confirmation_guardrail(out, labs) ==
    IF _has_antibody_confirmation(labs) \/ _has_antibody_recommendation(out)
    THEN <<>>
    ELSE LET hits == {h \in 1..Len(out.hypotheses) :
                         In("hashimoto", Lower(out.hypotheses[h].name))}
         IN  IF hits = {} THEN <<>>
             ELSE LET h == CHOOSE x \in hits : \A y \in hits : x <= y
                  IN  << [rule |-> [id |-> "GR_002", scope |-> None],
                          patch |-> [op |-> "add",
                                     path |-> <<"hypotheses", h - 1, "next_tests", "-">>,
                                     value |->
                                        [test_id |-> "t_tpo_ab",
                                         label |-> "Thyroid peroxidase antibodies (TPOAb)"]]] >>

check_guardrails(out, card, labs) ==
    LET inflammation_pattern == "p_inflam_iron_seq" \in card.signals
        all_markers == {labs[k].marker : k \in 1..Len(labs)}
        findings ==
            _apply_action_guardrails(out.patient_actions, inflammation_pattern, "patient_actions")
            \o _apply_action_guardrails(out.novel_actions, inflammation_pattern, "novel_actions")
            \o _apply_hashimoto_confirmation_guardrail(out, labs)
            \* GR_005 over the evidence list of each hypothesis (Python index h - 1)
            \o Flatten([h \in 1..Len(out.hypotheses) |->
                  Flatten([e \in 1..Len(out.hypotheses[h].evidence) |->
                      IF out.hypotheses[h].evidence[e].marker \notin all_markers
                      THEN << [rule |-> [id |-> "GR_005", scope |-> None],
                               patch |-> [op |-> "remove",
                                          path |-> <<"hypotheses", h - 1, "evidence", e - 1>>,
                                          value |-> None]] >>
                      ELSE <<>>])])
    IN  [status |-> IF findings = <<>> THEN "PASS" ELSE "FAIL",
         failed_rules |-> [k \in 1..Len(findings) |-> findings[k].rule],
         patches |-> [k \in 1..Len(findings) |-> findings[k].patch]]

(***************************************************************************)
(* app.py: the patch loop of the guardrail step of _run_pipeline.          *)
(* A path is kept as the sequence of its parts (the code joins them with   *)
(* "/" and splits them again); a part that isdigit() is the number itself. *)
(***************************************************************************)
\* "remove": walk path[:-1], then del obj[idx] when 0 <= idx < len(obj), else skip
ApplyPatch(out, patch) ==
    LET path == patch.path
    IN  IF patch.op = "remove"
        THEN IF Len(path) = 2
             THEN LET scope == path[1]
                      idx == path[2]
                      obj == out[scope]
                  IN  IF 0 <= idx /\ idx < Len(obj)
                      THEN [out EXCEPT ![scope] = DelAt(obj, idx)]
                      ELSE out
             ELSE LET h == path[2] + 1
                      idx == path[4]
                      obj == out.hypotheses[h].evidence
                  IN  IF 0 <= idx /\ idx < Len(obj)
                      THEN [out EXCEPT !.hypotheses[h].evidence = DelAt(obj, idx)]
                      ELSE out
        ELSE [out EXCEPT !.hypotheses[path[2] + 1].next_tests = Append(@, patch.value)]

\* for patch in guardrail_report["patches"]: ... , in the order of the list
RECURSIVE ApplyPatches(_, _)
ApplyPatches(out, patches) ==
    IF patches = <<>> THEN out
    ELSE ApplyPatches(ApplyPatch(out, Head(patches)), Tail(patches))


(***************************************************************************)
(* evidence_builder.py and the evidence_weighting decision of              *)
(* agent_manager.py.  Weights and scores are in hundredths.                *)
(***************************************************************************)
RECURSIVE FoldLeft(_, _, _)
\* f(f(f(acc, s[1]), s[2]), ...) for a step operator f
FoldLeft(f(_, _), acc, s) ==
    IF s = <<>> THEN acc ELSE FoldLeft(f, f(acc, Head(s)), Tail(s))

\* sorted(items, key=lambda x: x[key], reverse=True): stable
InsertByKey(sorted, item, key) ==
    LET n == Cardinality({k \in 1..Len(sorted) : sorted[k][key] >= item[key]})
    IN  SubSeq(sorted, 1, n) \o <<item>> \o SubSeq(sorted, n + 1, Len(sorted))

SortedDesc(items, key) ==
    LET Ins(s, it) == InsertByKey(s, it, key)
    IN  FoldLeft(Ins, <<>>, items)

Min(a, b) == IF a <= b THEN a ELSE b
Max(a, b) == IF a >= b THEN a ELSE b

\* WEIGHTS.get(marker, {}) ... _coerce_weight(... .get(relation, 0.1))
RuleWeight(marker, status, relation) ==
    LET byRel(sup, con) == CASE relation = "SUPPORTS" -> sup
                             [] relation = "CONTRADICTS" -> con
                             [] OTHER -> 10
    IN  CASE marker = "hsCRP" -> byRel(80, 0)
          [] marker = "Ferritin" /\ status = "HIGH" -> byRel(70, 60)
          [] marker = "Ferritin" /\ status = "LOW" -> byRel(60, 70)
          [] marker = "Iron" /\ status = "LOW" -> byRel(50, 40)
          [] marker = "TSAT" /\ status = "LOW" -> byRel(40, 30)
          [] marker = "Hb" /\ status = "LOW" -> byRel(30, 20)
          [] marker = "RDW" /\ status = "NORMAL" -> byRel(20, 10)
          [] OTHER -> 10

_is_rare_combination(marker, status) ==
    <<marker, status>> \notin
        { <<"hsCRP", "HIGH">>, <<"Ferritin", "HIGH">>, <<"Ferritin", "LOW">>,
          <<"Iron", "LOW">>, <<"TSAT", "LOW">>, <<"Hb", "LOW">>,
          <<"TSH", "HIGH">>, <<"FT4", "LOW">> }

_has_conflicts(supports, contradictions) ==
    /\ supports # <<>>
    /\ contradictions # <<>>
    /\ {supports[k].pattern_id : k \in 1..Len(supports)}
         \cap {contradictions[k].pattern_id : k \in 1..Len(contradictions)} # {}

\* model: <<>> in lite mode (or with USE_EVIDENCE_WEIGHTING_MODEL off, or when the
\* call fails), else <<w>> for the weight w the collaborator returns
get_evidence_weight(marker, status, relation, supports, contradictions, model) ==
    IF /\ model # <<>>
       /\ (_is_rare_combination(marker, status) \/ _has_conflicts(supports, contradictions))
    THEN model[1]
    ELSE RuleWeight(marker, status, relation)

_infer_support_relation(relation, status) ==
    IF status \notin {"HIGH", "LOW"} THEN ""
    ELSE CASE relation = "INCREASES" -> IF status = "HIGH" THEN "SUPPORTS" ELSE "CONTRADICTS"
           [] relation = "DECREASES" -> IF status = "LOW" THEN "SUPPORTS" ELSE "CONTRADICTS"
           [] OTHER -> ""

\* the pattern an edge connects to: edge['from'] if a signal, else edge['to'] if a signal
EdgePattern(edge, signals) ==
    IF edge.from \in Range(signals) THEN edge.from
    ELSE IF edge.to \in Range(signals) THEN edge.to
    ELSE None

\* the (lab, edge) pairs the two nested loops visit, in order
EvidencePairs(labs, edges) ==
    Flatten([m \in 1..Len(labs) |->
        Flatten([e \in 1..Len(edges) |->
            IF edges[e].from = labs[m].node_id \/ edges[e].to = labs[m].node_id
            THEN << [lab |-> labs[m], edge |-> edges[e]] >>
            ELSE <<>>])])

build_evidence(labs, signals, edges, model) ==
    LET init == [supports |-> <<>>, contradictions |-> <<>>,
                 candidate_scores |-> [p \in Range(signals) |-> 50],
                 top_discriminators |-> <<>>, events |-> <<>>]
        Step(acc, pair) ==
            LET pattern_id == EdgePattern(pair.edge, signals)
                relation == pair.edge.relation
                status == pair.lab.status
                weight == get_evidence_weight(pair.lab.marker, status, relation,
                                              acc.supports, acc.contradictions, model)
                item == [pattern_id |-> pattern_id, marker |-> pair.lab.marker,
                         marker_status |-> status, edge_id |-> pair.edge.id,
                         relation |-> relation, weight |-> weight]
                inferred == IF relation \in {"INCREASES", "DECREASES"}
                            THEN _infer_support_relation(relation, status) ELSE ""
                scoring_relation == IF inferred # "" THEN inferred ELSE relation
                scores == CASE scoring_relation = "SUPPORTS" ->
                                 [acc.candidate_scores EXCEPT ![pattern_id] = @ + weight]
                            [] scoring_relation = "CONTRADICTS" ->
                                 [acc.candidate_scores EXCEPT ![pattern_id] = @ - weight]
                            [] OTHER -> acc.candidate_scores
            IN  IF pattern_id = None THEN acc
                ELSE [supports |-> IF scoring_relation = "SUPPORTS"
                                   THEN Append(acc.supports, item) ELSE acc.supports,
                      contradictions |-> IF scoring_relation = "CONTRADICTS"
                                   THEN Append(acc.contradictions, item) ELSE acc.contradictions,
                      candidate_scores |-> scores,
                      top_discriminators |-> Append(acc.top_discriminators, item),
                      events |-> Append(acc.events, scores)]
        acc == FoldLeft(Step, init, EvidencePairs(labs, edges))
        sorted == SortedDesc(acc.top_discriminators, "weight")
    IN  [bundle |-> [supports |-> acc.supports,
                     contradictions |-> acc.contradictions,
                     candidate_scores |->
                         [p \in DOMAIN acc.candidate_scores |-> Max(0, Min(100, acc.candidate_scores[p]))],
                     top_discriminators |-> SubSeq(sorted, 1, Min(5, Len(sorted)))],
         score_updates |-> acc.events]

(***************************************************************************)
(* Inputs of build_evidence: the abnormal labs of the case card (marker,   *)
(* anchor node id, status), its signals, the edges of the subgraph, and    *)
(* what the evidence_weighting collaborator answers.                       *)
(***************************************************************************)
EvEdges ==
    << [id |-> "e_crp_inflam", from |-> "m_hscrp", to |-> "p_inflam_iron_seq", relation |-> "SUPPORTS"],
       [id |-> "e_ferr_irondef", from |-> "m_ferritin", to |-> "p_iron_def", relation |-> "SUPPORTS"],
       [id |-> "e_ferr_inflam", from |-> "p_inflam_iron_seq", to |-> "m_ferritin", relation |-> "INCREASES"],
       [id |-> "e_crp_irondef", from |-> "m_hscrp", to |-> "p_iron_def", relation |-> "CONTRADICTS"],
       [id |-> "e_iron_irondef", from |-> "m_iron", to |-> "p_iron_def", relation |-> "DECREASES"],
       [id |-> "e_ferr_tsat", from |-> "m_ferritin", to |-> "m_tsat", relation |-> "SUPPORTS"] >>

EvLabs ==
    << [marker |-> "hsCRP", node_id |-> "m_hscrp", status |-> "HIGH"],
       [marker |-> "Ferritin", node_id |-> "m_ferritin", status |-> "LOW"],
       [marker |-> "Ferritin", node_id |-> "m_ferritin", status |-> "HIGH"],
       [marker |-> "Iron", node_id |-> "m_iron", status |-> "LOW"],
       [marker |-> "Iron", node_id |-> "m_iron", status |-> "REFERENCE_UNKNOWN"] >>

\* the subsequence of s at the positions in idx
Pick(s, idx) ==
    LET F[k \in 0..Len(s)] ==
            IF k = 0 THEN <<>>
            ELSE IF k \in idx THEN Append(F[k - 1], s[k]) ELSE F[k - 1]
    IN  F[Len(s)]

\* lab sets with one entry per marker (marker_status is a dict keyed by marker)
EvLabChoices ==
    {Pick(EvLabs, idx) : idx \in
        {x \in SUBSET (1..Len(EvLabs)) :
            \A a, b \in x : a # b => EvLabs[a].marker # EvLabs[b].marker}}

\* EVIDENCE_SCORE: one call of build_evidence
BuildEvidence ==
    /\ ev_pc = "ready"
    /\ LET r == build_evidence(ev_input.labs, ev_input.signals, ev_input.edges, ev_input.model)
       IN  /\ evidence_bundle' = r.bundle
           /\ ev_events' = r.score_updates
    /\ ev_pc' = "done"
    /\ UNCHANGED ev_input
    /\ UNCHANGED notEv

\* the component is not part of the specification at hand
EvIdle ==
    /\ ev_input = None
    /\ ev_events = <<>>
    /\ evidence_bundle = None
    /\ ev_pc = "idle"


(***************************************************************************)
(* Inputs of the guardrail step.                                           *)
(***************************************************************************)
MaxActions == 2
MaxNovelActions == 1
MaxGuardHyps == 1
MaxEvidence == 2

GuardActions == [task : {TaskDose, TaskStfr, TaskAsk, TaskTestDose, TaskTpo}]
NoReport == [status |-> "NONE", failed_rules |-> <<>>, patches |-> <<>>]

GuardIdle ==
    /\ reasoner_output = None
    /\ case_card = None
    /\ normalized_labs = <<>>
    /\ guardrail_report = NoReport
    /\ gr_before = None
    /\ gr_recheck = NoReport
    /\ gr_pc = "idle"

\* the GUARDRAILS step: check_guardrails, then every patch when the status is FAIL
GuardrailStep ==
    /\ gr_pc = "ready"
    /\ LET report == check_guardrails(reasoner_output, case_card, normalized_labs)
       IN  /\ guardrail_report' = report
           /\ reasoner_output' =
                 IF report.status = "FAIL"
                 THEN ApplyPatches(reasoner_output, report.patches)
                 ELSE reasoner_output
    /\ gr_pc' = "patched"
    /\ UNCHANGED <<case_card, normalized_labs, gr_before, gr_recheck>>
    /\ UNCHANGED notGuard

\* check_guardrails once more, on the patched output
GuardrailRecheck ==
    /\ gr_pc = "patched"
    /\ gr_recheck' = check_guardrails(reasoner_output, case_card, normalized_labs)
    /\ gr_pc' = "rechecked"
    /\ UNCHANGED <<reasoner_output, case_card, normalized_labs, guardrail_report, gr_before>>
    /\ UNCHANGED notGuard

(***************************************************************************)
(* Python objects.  A reasoner output is a dict whose values are lists and *)
(* dicts; two names may denote the same object, and a change made through  *)
(* one is then seen through the other.  An object is a record              *)
(*     [t |-> "dict" | "list" | "objlist", oid |-> identity, v |-> value]  *)
(* where v is the record of a dict or the sequence of a list; the values   *)
(* under the keys ObjKeys of a dict and the items of an "objlist" (the     *)
(* hypotheses list) are objects in turn, everything else is a plain value. *)
(* Python's None is NoneObj.  The plain form of a dict carries no          *)
(* identities: Alloc builds the objects of a plain dict, Plain reads them  *)
(* back.                                                                   *)
(***************************************************************************)
NoneObj == [t |-> "None"]

ListKeys == {"evidence", "counter_evidence", "next_tests", "patient_actions",
             "red_flags", "novel_insights", "novel_actions", "what_would_change_my_mind"}

ObjKeys == ListKeys \cup {"hypotheses", "provenance"}

\* where the identity of the object under key k lies, relative to its dict
KeyNo(k) ==
    CASE k = "evidence" -> 1
      [] k = "counter_evidence" -> 2
      [] k = "next_tests" -> 3
      [] k = "patient_actions" -> 4
      [] k = "red_flags" -> 5
      [] k = "novel_insights" -> 6
      [] k = "novel_actions" -> 7
      [] k = "provenance" -> 8
      [] k = "what_would_change_my_mind" -> 9
      [] k = "hypotheses" -> 10

\* the objects of the plain dict d, with identities base, base + 1, ...
RECURSIVE Alloc(_, _)
Alloc(d, base) ==
    [t |-> "dict", oid |-> base,
     v |-> [k \in DOMAIN d |->
              CASE k = "hypotheses" ->
                     [t |-> "objlist", oid |-> base + KeyNo(k),
                      v |-> [i \in DOMAIN d[k] |-> Alloc(d[k][i], base + KeyNo(k) + 10 * i)]]
                [] k = "provenance" -> Alloc(d[k], base + KeyNo(k))
                [] k \in ListKeys -> [t |-> "list", oid |-> base + KeyNo(k), v |-> d[k]]
                [] OTHER -> d[k]]]

\* the value of an object, identities dropped
RECURSIVE Plain(_)
Plain(x) ==
    CASE x.t = "objlist" -> [i \in DOMAIN x.v |-> Plain(x.v[i])]
      [] x.t = "dict" -> [k \in DOMAIN x.v |->
                            IF k \in ObjKeys THEN Plain(x.v[k]) ELSE x.v[k]]
      [] x.t = "list" -> x.v
      [] OTHER -> None

\* copy.copy(x), for contrast with deepcopy: a new object for x itself, whose
\* values and items are the objects x holds
shallow_copy(x, base) == IF x.t = "None" THEN x ELSE [x EXCEPT !.oid = base]

\* copy.deepcopy(x): the same value in objects that did not exist before
\* (identities base, base + 1, ...)
RECURSIVE deepcopy(_, _)
deepcopy(x, base) ==
    CASE x.t = "objlist" ->
           [t |-> x.t, oid |-> base,
            v |-> [i \in DOMAIN x.v |-> deepcopy(x.v[i], base + 10 * i)]]
      [] x.t = "dict" ->
           [t |-> x.t, oid |-> base,
            v |-> [k \in DOMAIN x.v |->
                     IF k \in ObjKeys THEN deepcopy(x.v[k], base + KeyNo(k)) ELSE x.v[k]]]
      [] x.t = "list" -> [x EXCEPT !.oid = base]
      [] OTHER -> x

\* the identities of the objects reachable from x
RECURSIVE Oids(_)
Oids(x) ==
    CASE x.t = "objlist" -> {x.oid} \cup UNION {Oids(x.v[i]) : i \in DOMAIN x.v}
      [] x.t = "dict" -> {x.oid} \cup UNION {Oids(x.v[k]) : k \in DOMAIN x.v \cap ObjKeys}
      [] x.t = "list" -> {x.oid}
      [] OTHER -> {}

\* x as seen after the object oid was changed in place: d["mutated"] = True on
\* a dict, del lst[0] on a non-empty list
RECURSIVE Mutate(_, _)
Mutate(x, oid) ==
    IF x.t = "None" THEN x
    ELSE IF x.oid = oid
    THEN IF x.t = "dict"
         THEN [x EXCEPT !.v = [k \in DOMAIN x.v \cup {"mutated"} |->
                                 IF k = "mutated" THEN TRUE ELSE x.v[k]]]
         ELSE [x EXCEPT !.v = IF x.v = <<>> THEN x.v ELSE Tail(x.v)]
    ELSE CASE x.t = "objlist" ->
                [x EXCEPT !.v = [i \in DOMAIN x.v |-> Mutate(x.v[i], oid)]]
           [] x.t = "dict" ->
                [x EXCEPT !.v = [k \in DOMAIN x.v |->
                                   IF k \in ObjKeys THEN Mutate(x.v[k], oid) ELSE x.v[k]]]
           [] OTHER -> x

\* d.get(k, default) on the record of a dict
Get(d, k, default) == IF k \in DOMAIN d THEN d[k] ELSE default

\* d[k] = val on a dict object
SetKey(obj, k, val) ==
    [obj EXCEPT !.v = [j \in DOMAIN obj.v \cup {k} |-> IF j = k THEN val ELSE obj.v[j]]]

\* the list under x.get(k) or [] of a dict object
ListOf(x, k) == IF k \in DOMAIN x.v THEN x.v[k].v ELSE <<>>

\* "not x" for None, a dict or a list
Falsy(x) == x.t = "None" \/ DOMAIN x.v = {}

Abs(x) == IF x < 0 THEN -x ELSE x

(***************************************************************************)
(* Cross-turn merge of reasoner outputs (app.py 523-622).                  *)
(***************************************************************************)
\* re.sub(r"\s+", " ", name.strip().lower()), for the names of the model
_normalize_hypothesis_name(name) ==
    CASE name = "" -> ""
      [] name = "Anemia of inflammation (likely)" -> "anemia of inflammation (likely)"
      [] name = "Anemia of inflammation (possible)" -> "anemia of inflammation (possible)"
      [] name = "Anemia of inflammation (unlikely but considered)" ->
             "anemia of inflammation (unlikely but considered)"
      [] name = "Iron deficiency anemia (likely)" -> "iron deficiency anemia (likely)"
      [] name = "Iron deficiency anemia (possible)" -> "iron deficiency anemia (possible)"
      [] name = "Iron deficiency anemia (unlikely but considered)" ->
             "iron deficiency anemia (unlikely but considered)"
      [] name = "Hypothyroidism (likely)" -> "hypothyroidism (likely)"
      [] name = "Hypothyroidism (possible)" -> "hypothyroidism (possible)"
      [] name = "Hypothyroidism (unlikely but considered)" ->
             "hypothyroidism (unlikely but considered)"
      [] name = "  hypothyroidism   (Possible) " -> "hypothyroidism (possible)"
      [] name = "Unknown condition" -> "unknown condition"
      [] name = " " -> ""

_hypothesis_key(hypo) ==
    IF Get(hypo.v, "id", "") # "" THEN hypo.v.id
    ELSE _normalize_hypothesis_name(Get(hypo.v, "name", ""))

_evidence_signature(items) ==
    {<<items[k].marker, items[k].status, items[k].edge_id>> : k \in 1..Len(items)}

confidence_threshold == 5

\* for contrast with _hypothesis_changed: a confidence drift counts only above
\* the threshold
_hypothesis_changed_above(prev, new) ==
    LET prev_conf == Get(prev.v, "confidence", 0)
        new_conf == Get(new.v, "confidence", 0)
    IN  \/ Abs(new_conf - prev_conf) > confidence_threshold
        \/ _evidence_signature(ListOf(prev, "evidence"))
             # _evidence_signature(ListOf(new, "evidence"))
        \/ _evidence_signature(ListOf(prev, "counter_evidence"))
             # _evidence_signature(ListOf(new, "counter_evidence"))
        \/ ListOf(prev, "next_tests") # ListOf(new, "next_tests")

_hypothesis_changed(prev, new) ==
    LET prev_conf == Get(prev.v, "confidence", 0)
        new_conf == Get(new.v, "confidence", 0)
    IN  \/ Abs(new_conf - prev_conf) >= confidence_threshold
        \/ _evidence_signature(ListOf(prev, "evidence"))
             # _evidence_signature(ListOf(new, "evidence"))
        \/ _evidence_signature(ListOf(prev, "counter_evidence"))
             # _evidence_signature(ListOf(new, "counter_evidence"))
        \/ ListOf(prev, "next_tests") # ListOf(new, "next_tests")

_is_valid_hypotheses(output) ==
    IF Falsy(output) THEN FALSE
    ELSE IF "hypotheses_valid" \in DOMAIN output.v THEN output.v.hypotheses_valid
    ELSE ListOf(output, "hypotheses") # <<>>

\* { _hypothesis_key(h): h for h in prev_hypotheses if _hypothesis_key(h) }:
\* the last hypothesis of a key wins
PrevMap(prev_hypotheses) ==
    LET keyAt(i) == _hypothesis_key(prev_hypotheses[i])
        keys == {keyAt(i) : i \in 1..Len(prev_hypotheses)} \ {""}
    IN  [key \in keys |->
            prev_hypotheses[CHOOSE i \in 1..Len(prev_hypotheses) :
                /\ keyAt(i) = key
                /\ \A j \in (i + 1)..Len(prev_hypotheses) : keyAt(j) # key]]

SideFields == <<"patient_actions", "red_flags", "novel_insights", "novel_actions", "provenance">>

\* one round of "for hypo in new_hypotheses"; acc is [merged, seen_keys,
\* updated_any], at the identity for the copy this round makes
MergeNewHypothesis(acc, hypo, prev_map, at) ==
    LET key == _hypothesis_key(hypo)
    IN  IF key # "" /\ key \in DOMAIN prev_map
        THEN IF _hypothesis_changed(prev_map[key], hypo)
             THEN [merged |-> Append(acc.merged,
                                SetKey(deepcopy(hypo, at), "merge_updated", TRUE)),
                   seen_keys |-> acc.seen_keys \cup {key},
                   updated_any |-> TRUE]
             ELSE [merged |-> Append(acc.merged,
                                SetKey(deepcopy(prev_map[key], at), "merge_updated", FALSE)),
                   seen_keys |-> acc.seen_keys \cup {key},
                   updated_any |-> acc.updated_any]
        ELSE [merged |-> Append(acc.merged,
                           SetKey(deepcopy(hypo, at), "merge_updated", TRUE)),
              seen_keys |-> IF key # "" THEN acc.seen_keys \cup {key} ELSE acc.seen_keys,
              updated_any |-> TRUE]

\* for contrast with KeepPrevHypothesis: a prior hypothesis without a key is
\* not carried over
KeepKeyedPrevHypothesis(merged, prev_h, seen_keys, at) ==
    LET key == _hypothesis_key(prev_h)
    IN  IF key = "" \/ key \in seen_keys THEN merged
        ELSE Append(merged, SetKey(deepcopy(prev_h, at), "merge_updated", FALSE))

\* one round of "for prev_h in prev_hypotheses"
KeepPrevHypothesis(merged, prev_h, seen_keys, at) ==
    LET key == _hypothesis_key(prev_h)
    IN  IF key # "" /\ key \in seen_keys THEN merged
        ELSE Append(merged, SetKey(deepcopy(prev_h, at), "merge_updated", FALSE))

\* for contrast with RestoreSideFields: the side fields of new stay
KeepNewSideFields(merged_output, prev, at) == merged_output

\* "if not updated_any": the side fields prev has are copied over
RestoreSideFields(merged_output, prev, at) ==
    LET FieldStep(out, f) ==
            IF SideFields[f] \in DOMAIN prev.v
            THEN SetKey(out, SideFields[f], deepcopy(prev.v[SideFields[f]], at + 100 * f))
            ELSE out
    IN  FoldLeft(FieldStep, merged_output, [f \in 1..Len(SideFields) |-> f])

\* prev and new are objects or NoneObj; the objects the call creates get the
\* identities fresh, fresh + 100, ... (one hundred per deepcopy)
_merge_reasoner_output(prev, new, fresh) ==
    IF Falsy(prev)
    THEN IF Falsy(new) THEN [t |-> "dict", oid |-> fresh, v |-> <<>>] ELSE new
    ELSE IF Falsy(new) \/ ~_is_valid_hypotheses(new)
    THEN deepcopy(prev, fresh)
    ELSE
    LET prev_hypotheses == ListOf(prev, "hypotheses")
        new_hypotheses == ListOf(new, "hypotheses")
        n == Len(new_hypotheses)
        m == Len(prev_hypotheses)
        prev_map == PrevMap(prev_hypotheses)
        NewStep(acc, j) ==
            MergeNewHypothesis(acc, new_hypotheses[j], prev_map, fresh + 100 * j)
        afterNew == FoldLeft(NewStep,
                             [merged |-> <<>>, seen_keys |-> {}, updated_any |-> FALSE],
                             [j \in 1..n |-> j])
        PrevStep(merged, i) ==
            KeepPrevHypothesis(merged, prev_hypotheses[i], afterNew.seen_keys,
                               fresh + 100 * (n + i))
        merged == FoldLeft(PrevStep, afterNew.merged, [i \in 1..m |-> i])
        merged_output ==
            SetKey(deepcopy(new, fresh + 100 * (n + m + 1)), "hypotheses",
                   [t |-> "objlist", oid |-> fresh + 100 * (n + m + 2), v |-> merged])
    IN  IF afterNew.updated_any THEN merged_output
        ELSE RestoreSideFields(merged_output, prev, fresh + 100 * (n + m + 2))

(***************************************************************************)
(* One call of _merge_reasoner_output, and a later change made through the *)
(* value it returned.  mg_prev and mg_new are the arguments as the caller  *)
(* sees them now, mg_given is what they were when the call was made.       *)
(***************************************************************************)
MaxPrevHyps == 2
MaxNewHyps == 2

MgFerritinHigh == [marker |-> "Ferritin", status |-> "HIGH", edge_id |-> "e_ferr_inflam"]
MgCrpHigh == [marker |-> "hsCRP", status |-> "HIGH", edge_id |-> "e_crp_irondef"]
TestStfr == [test_id |-> "t_stfr", label |-> "Soluble transferrin receptor (sTfR)"]
TestFerritin == [test_id |-> "t_ferritin", label |-> "Ferritin measurement"]

Hypothesis(id, name, confidence, evidence, counter_evidence, next_tests, reasoning) ==
    [id |-> id, name |-> name, confidence |-> confidence, evidence |-> evidence,
     counter_evidence |-> counter_evidence, next_tests |-> next_tests,
     reasoning |-> reasoning]

\* d | {k: val} on a plain dict
WithKey(d, k, val) == [j \in DOMAIN d \cup {k} |-> IF j = k THEN val ELSE d[j]]

PriorH1 == Hypothesis("H1", "Anemia of inflammation (likely)", 50,
                      <<MgFerritinHigh>>, <<>>, <<TestStfr>>, "")

\* prior hypothesis lists, no hypothesis twice: H1, an H2 that carries the
\* merge_updated of an earlier merge, a hypothesis keyed by its name, and one
\* without id and name
MgPrevLists ==
    {s \in SeqsUpTo({ PriorH1,
                      WithKey(Hypothesis("H2", "Iron deficiency anemia (possible)", 40,
                                         <<>>, <<MgCrpHigh>>, <<>>, ""),
                              "merge_updated", TRUE),
                      Hypothesis("", "Hypothyroidism (possible)", 40, <<>>, <<>>, <<>>, ""),
                      Hypothesis("", "", 30, <<>>, <<>>, <<>>, "") },
                    MaxPrevHyps) :
        \A a, b \in 1..Len(s) : a # b => s[a] # s[b]}

\* new hypothesis lists: H1 with one field changed at a time, H2 unchanged, a
\* name that normalises to a prior one's, a new H3, a hypothesis without key
MgNewLists ==
    SeqsUpTo(
    { [PriorH1 EXCEPT !.reasoning = "Ferritin is high because of inflammation."],
      [PriorH1 EXCEPT !.confidence = 54],
      [PriorH1 EXCEPT !.confidence = 45],
      [PriorH1 EXCEPT !.evidence =
          << [marker |-> "Ferritin", status |-> "LOW", edge_id |-> "e_ferr_inflam"] >>],
      [PriorH1 EXCEPT !.evidence = <<MgFerritinHigh, MgFerritinHigh>>],
      [PriorH1 EXCEPT !.counter_evidence = <<MgCrpHigh>>],
      [PriorH1 EXCEPT !.next_tests = <<TestFerritin>>],
      Hypothesis("H2", "Iron deficiency anemia (possible)", 40, <<>>, <<MgCrpHigh>>, <<>>, ""),
      Hypothesis("", "  hypothyroidism   (Possible) ", 40, <<>>, <<>>, <<>>, ""),
      Hypothesis("H3", "Hypothyroidism (likely)", 80, <<>>, <<>>, <<>>, ""),
      Hypothesis("", " ", 60, <<>>, <<>>, <<>>, "") },
      MaxNewHyps)

\* a stored output of an earlier turn (every field), and an output that holds
\* hypotheses and actions only
MgPrevObjects ==
    {NoneObj, [t |-> "dict", oid |-> 1000, v |-> <<>>]}
    \cup
    { Alloc([hypotheses |-> hs, hypotheses_valid |-> hs # <<>>,
       patient_actions |-> <<[bucket |-> "tests", task |-> TaskStfr]>>,
       red_flags |-> <<"Hb below 7 g/dL">>,
       novel_insights |-> <<>>, novel_actions |-> <<>>,
       provenance |-> [kg_grounded |-> TRUE,
                       notes |-> "Lite mode: KG-grounded reasoning only."]], 1000)
        : hs \in MgPrevLists }
    \cup
    { Alloc([hypotheses |-> hs,
             patient_actions |-> <<[bucket |-> "tests", task |-> TaskStfr]>>], 1000)
        : hs \in MgPrevLists }

MgNewSides ==
    [patient_actions |-> <<[bucket |-> "tests", task |-> TaskAsk]>>,
     red_flags |-> <<>>,
     novel_insights |-> <<[insight |-> "Consider occult blood loss", outside_kg |-> TRUE]>>,
     novel_actions |-> <<>>,
     provenance |-> [kg_grounded |-> FALSE,
                     notes |-> "Outside-KG ideas from novelty agent."]]

\* new outputs: without the hypotheses_valid flag, and for the short lists with
\* the flag set either way
\* None, {} and the outputs above, as objects
MgNewObjects ==
    {NoneObj, [t |-> "dict", oid |-> 2000, v |-> <<>>]}
    \cup
    { Alloc(WithKey(MgNewSides, "hypotheses", hs), 2000) : hs \in MgNewLists }
    \cup
    { Alloc(WithKey(WithKey(MgNewSides, "hypotheses", hs), "hypotheses_valid", b), 2000)
        : hs \in {s \in MgNewLists : Len(s) <= 1}, b \in BOOLEAN }

MergeIdle ==
    /\ mg_prev = NoneObj
    /\ mg_new = NoneObj
    /\ mg_given = NoneObj
    /\ mg_result = NoneObj
    /\ mg_pc = "idle"

\* merged = _merge_reasoner_output(prev_output, result.get("reasoner_output"))
Merge ==
    /\ mg_pc = "ready"
    /\ mg_result' = _merge_reasoner_output(mg_prev, mg_new, 3000)
    /\ mg_pc' = "merged"
    /\ UNCHANGED <<mg_prev, mg_new, mg_given>>
    /\ UNCHANGED notMerge

\* the caller changes one object of the returned value in place; every name
\* that denotes this object sees the change
MutateResult ==
    /\ mg_pc = "merged"
    /\ \E oid \in Oids(mg_result) :
          /\ Mutate(mg_result, oid) # mg_result
          /\ mg_result' = Mutate(mg_result, oid)
          /\ mg_prev' = Mutate(mg_prev, oid)
          /\ mg_new' = Mutate(mg_new, oid)
    /\ mg_pc' = "mutated"
    /\ UNCHANGED mg_given
    /\ UNCHANGED notMerge

(***************************************************************************)
(* reasoner_medgemma.py: stage 1 (_reason_lite_mode) and the model stages  *)
(* of reason().  Outputs are plain dicts here.                             *)
(***************************************************************************)
PATTERN_TO_CONDITION ==
    [p_iron_def |-> "Iron deficiency anemia",
     p_inflam_iron_seq |-> "Anemia of inflammation",
     p_hypothyroid |-> "Hypothyroidism"]

\* the patterns of the model are all in PATTERN_TO_CONDITION
_condition_label(pattern_id) ==
    IF pattern_id \in DOMAIN PATTERN_TO_CONDITION THEN PATTERN_TO_CONDITION[pattern_id]
    ELSE "Unknown condition"

\* f"{condition} ({qualifier})"
HypothesisName(condition, qualifier) ==
    CASE condition = "Iron deficiency anemia" ->
           (CASE qualifier = "likely" -> "Iron deficiency anemia (likely)"
              [] qualifier = "possible" -> "Iron deficiency anemia (possible)"
              [] OTHER -> "Iron deficiency anemia (unlikely but considered)")
      [] condition = "Anemia of inflammation" ->
           (CASE qualifier = "likely" -> "Anemia of inflammation (likely)"
              [] qualifier = "possible" -> "Anemia of inflammation (possible)"
              [] OTHER -> "Anemia of inflammation (unlikely but considered)")
      [] condition = "Hypothyroidism" ->
           (CASE qualifier = "likely" -> "Hypothyroidism (likely)"
              [] qualifier = "possible" -> "Hypothyroidism (possible)"
              [] OTHER -> "Hypothyroidism (unlikely but considered)")

\* f"H{n}"
HypothesisId(n) ==
    CASE n = 1 -> "H1" [] n = 2 -> "H2" [] n = 3 -> "H3" [] n = 4 -> "H4" [] n = 5 -> "H5"

MIN_CONFIDENCE_THRESHOLD == 10

\* the evidence items of one pattern, as the hypothesis cites them
PatternEvidence(items, pattern_id) ==
    Flatten([k \in 1..Len(items) |->
        IF items[k].pattern_id = pattern_id
        THEN << [marker |-> items[k].marker, status |-> items[k].marker_status,
                 edge_id |-> items[k].edge_id] >>
        ELSE <<>>])

NextTests(pattern_id) ==
    CASE pattern_id = "p_inflam_iron_seq" -> <<TestStfr>>
      [] pattern_id = "p_iron_def" -> <<TestFerritin>>
      [] pattern_id = "p_hypothyroid" ->
             << [test_id |-> "t_tpo_ab", label |-> "Thyroid peroxidase antibodies"] >>
      [] OTHER -> <<>>

WhatWouldChangeMyMind(pattern_id) ==
    CASE pattern_id = "p_inflam_iron_seq" ->
             << "If ferritin decreases over time", "If CRP normalizes",
                "If sTfR is elevated (suggests true iron deficiency)" >>
      [] pattern_id = "p_iron_def" ->
             << "If ferritin increases with iron supplementation", "If MCV normalizes",
                "If inflammation markers appear" >>
      [] pattern_id = "p_hypothyroid" ->
             << "If TSH normalizes", "If thyroid antibodies are negative",
                "If symptoms resolve with treatment" >>
      [] OTHER -> <<>>

Qualifier(confidence) ==
    IF confidence >= 70 THEN "likely"
    ELSE IF confidence >= 40 THEN "possible"
    ELSE "unlikely but considered"

LiteProvenance == [kg_grounded |-> TRUE, notes |-> "Lite mode: KG-grounded reasoning only."]

LiteAction(task, why) == [bucket |-> "tests", task |-> task, why |-> why, risk |-> "low"]

\* scores.items(): candidate_scores is a dict filled in the order of
\* case_card['signals'], and the model reads that order from the case card
ScoreItems(card, bundle) ==
    [i \in 1..Len(card.signals) |->
        [pattern_id |-> card.signals[i],
         score |-> bundle.candidate_scores[card.signals[i]]]]

\* the loop "for idx, (pattern_id, confidence) in enumerate(sorted_patterns)"
LiteHypotheses(sorted_patterns, bundle) ==
    Flatten([i \in 1..Len(sorted_patterns) |->
        IF sorted_patterns[i].score < MIN_CONFIDENCE_THRESHOLD THEN <<>>
        ELSE << [id |-> HypothesisId(i),
                 name |-> HypothesisName(_condition_label(sorted_patterns[i].pattern_id),
                                         Qualifier(sorted_patterns[i].score)),
                 confidence |-> sorted_patterns[i].score,
                 evidence |-> PatternEvidence(bundle.top_discriminators,
                                              sorted_patterns[i].pattern_id),
                 counter_evidence |-> PatternEvidence(bundle.contradictions,
                                                      sorted_patterns[i].pattern_id),
                 next_tests |-> NextTests(sorted_patterns[i].pattern_id),
                 what_would_change_my_mind |->
                     WhatWouldChangeMyMind(sorted_patterns[i].pattern_id),
                 reasoning |-> ""] >>])

\* "Generate patient actions based on top hypothesis"
LitePatientActions(sorted_patterns, scores) ==
    LET iron_scores == {"p_inflam_iron_seq", "p_iron_def"} \cap DOMAIN scores
    IN  IF sorted_patterns[1].pattern_id = "p_inflam_iron_seq"
        THEN IF Cardinality(iron_scores) = 2 /\ \A p \in iron_scores : scores[p] > 30
             THEN << LiteAction(TaskStfr, "Both patterns are possible - sTfR helps distinguish") >>
             ELSE << LiteAction(TaskAsk, "Differentiate mixed picture") >>
        ELSE <<>>

LiteFromSorted(sorted_patterns, bundle) ==
    [hypotheses |-> LiteHypotheses(sorted_patterns, bundle),
     patient_actions |-> LitePatientActions(sorted_patterns, bundle.candidate_scores),
     red_flags |-> <<>>,
     hypotheses_valid |-> Len(LiteHypotheses(sorted_patterns, bundle)) > 0,
     provisional |-> FALSE,
     novel_insights |-> <<>>,
     novel_actions |-> <<>>,
     provenance |-> LiteProvenance]

_reason_lite_mode(card, bundle) ==
    IF card.signals = <<>>
    THEN [hypotheses |-> <<>>, patient_actions |-> <<>>, red_flags |-> <<>>]
    ELSE LiteFromSorted(SortedDesc(ScoreItems(card, bundle), "score"), bundle)

\* str.upper() on the hypothesis ids of the model
Upper(id) ==
    CASE id = "h1" -> "H1" [] id = "h2" -> "H2" [] OTHER -> id

\* _parse_ranking_line without the test 0 <= v <= 1
_parse_ranking_line_unchecked(matches) ==
    [hid \in {Upper(matches[k].id) : k \in 1..Len(matches)} |->
        matches[CHOOSE k \in 1..Len(matches) :
            /\ Upper(matches[k].id) = hid
            /\ \A j \in 1..Len(matches) : Upper(matches[j].id) = hid => j <= k].value]

\* The regular expression of _parse_ranking_line finds the pairs Hn=value of
\* the reply; matches is the sequence of [id, value] it finds (a value is a
\* non-negative decimal: no sign can match).  Later pairs override earlier ones.
_parse_ranking_line(matches) ==
    LET ok == {k \in 1..Len(matches) : 0 <= matches[k].value /\ matches[k].value <= 100}
        ids == {Upper(matches[k].id) : k \in ok}
    IN  [hid \in ids |->
            matches[CHOOSE k \in ok :
                /\ Upper(matches[k].id) = hid
                /\ \A j \in ok : Upper(matches[j].id) = hid => j <= k].value]

\* int(os.getenv("HYBRID_RANK_TOP_N", "5")), int(os.getenv("HYBRID_REASON_TOP_N", "2"))
HYBRID_RANK_TOP_N == 5
HYBRID_REASON_TOP_N == 2

\* reply is <<>> when model_manager.generate raises, else <<matches>>.  The
\* slice hypotheses[:HYBRID_RANK_TOP_N] only feeds the prompt; the loop that
\* overwrites runs over hypotheses.
_model_rank_hypotheses(hypotheses, reply) ==
    IF hypotheses = <<>> \/ reply = <<>> THEN hypotheses
    ELSE LET ranking == _parse_ranking_line(reply[1])
         IN  [i \in 1..Len(hypotheses) |->
                IF Upper(hypotheses[i].id) \in DOMAIN ranking
                THEN [hypotheses[i] EXCEPT !.confidence = ranking[Upper(hypotheses[i].id)]]
                ELSE hypotheses[i]]

\* the dict a hypothesis of the model's JSON becomes (reason(), JSON path)
ValidatedHypothesis(h) ==
    [id |-> Get(h, "id", "H1"),
     name |-> Get(h, "name", "Unknown condition"),
     confidence |-> Get(h, "confidence", 50),
     evidence |-> Get(h, "evidence", <<>>),
     counter_evidence |-> Get(h, "counter_evidence", <<>>),
     next_tests |-> Get(h, "next_tests", <<>>),
     what_would_change_my_mind |-> Get(h, "what_would_change_my_mind", <<>>),
     reasoning |-> Get(h, "reasoning", "")]

ambiguity_threshold == 15

\* agent_manager.should_use_agent("novel_insight", novelty_context)
UseNovelty(model, hypotheses, bundle) ==
    LET top_confidence == IF hypotheses # <<>> THEN hypotheses[1].confidence ELSE 0
        confidence_margin == IF Len(hypotheses) > 1
                             THEN hypotheses[1].confidence - hypotheses[2].confidence
                             ELSE 100
        contradiction_count == Len(bundle.contradictions)
        support_count == Len(bundle.supports)
    IN  /\ ~model.lite_mode
        /\ model.model_loaded
        /\ model.novelty_env # "off"
        /\ \/ model.novelty_env = "force"
           \/ top_confidence < 55
           \/ confidence_margin < ambiguity_threshold
           \/ (contradiction_count > 0 /\ contradiction_count >= support_count)

\* "for i in items: i['outside_kg'] = True": raises at the first item that is
\* no dict (a string, kept as [str |-> text]), the items before it marked
MarkOutsideKg(items) ==
    LET bad == {k \in 1..Len(items) : "str" \in DOMAIN items[k]}
        stop == IF bad = {} THEN Len(items) + 1 ELSE CHOOSE k \in bad : \A j \in bad : k <= j
    IN  [items |-> [k \in 1..Len(items) |->
                      IF k < stop THEN WithKey(items[k], "outside_kg", TRUE) ELSE items[k]],
         raised |-> bad # {}]

\* the novelty block of reason(): st is [novel_insights, novel_actions,
\* provenance]; model.novelty_reply is <<>> when call_agent raises or answers
\* without a result, else <<result>>
NoveltyStep(st, model, hypotheses, bundle) ==
    IF ~UseNovelty(model, hypotheses, bundle) \/ model.novelty_reply = <<>>
    THEN st
    ELSE LET result == model.novelty_reply[1]
             insights == MarkOutsideKg(result.novel_insights)
             actions == MarkOutsideKg(result.novel_actions)
         IN  IF insights.raised
             THEN [st EXCEPT !.novel_insights = insights.items,
                             !.novel_actions = result.novel_actions]
             ELSE IF actions.raised
             THEN [st EXCEPT !.novel_insights = insights.items,
                             !.novel_actions = actions.items]
             ELSE [novel_insights |-> insights.items,
                   novel_actions |-> actions.items,
                   provenance |->
                       IF insights.items # <<>> \/ actions.items # <<>>
                       THEN [kg_grounded |-> FALSE,
                             notes |-> "Outside-KG ideas from novelty agent."]
                       ELSE st.provenance]

\* the action_generation block of reason(): model.action_reply is <<>> when the
\* call raises or answers without patient_actions, else <<patient_actions>>
ActionStep(patient_actions, model) ==
    IF /\ ~model.lite_mode /\ model.model_loaded /\ model.use_action_model
       /\ model.action_reply # <<>> /\ model.action_reply[1] # <<>>
    THEN model.action_reply[1]
    ELSE patient_actions

\* the JSON path is taken: the switch is on, the model is loaded, and the
\* collaborator answered with at least one hypothesis
JsonUsed(model) ==
    /\ model.use_hypothesis_json /\ model.model_loaded
    /\ model.json_reply # <<>>
    /\ Get(model.json_reply[1], "hypotheses", <<>>) # <<>>

\* the dict reason() returns on its model paths; nov is [novel_insights,
\* novel_actions, provenance]
ReasonResult(hypotheses, patient_actions, red_flags, nov) ==
    [hypotheses |-> hypotheses,
     patient_actions |-> patient_actions,
     red_flags |-> red_flags,
     hypotheses_valid |-> Len(hypotheses) > 0,
     provisional |-> FALSE,
     novel_insights |-> nov.novel_insights,
     novel_actions |-> nov.novel_actions,
     provenance |-> nov.provenance]

\* reason(), JSON path, from the validated hypotheses on
JsonFromValidated(hypotheses, base_result, model_output, bundle, model) ==
    ReasonResult(
        hypotheses,
        ActionStep(IF Get(model_output, "patient_actions", <<>>) # <<>>
                   THEN model_output.patient_actions ELSE base_result.patient_actions,
                   model),
        IF Get(model_output, "red_flags", <<>>) # <<>>
        THEN model_output.red_flags ELSE base_result.red_flags,
        NoveltyStep([novel_insights |-> <<>>, novel_actions |-> <<>>,
                     provenance |-> [kg_grounded |-> TRUE,
                                     notes |-> "Model hypothesis JSON used."]],
                    model, hypotheses, bundle))
    @@ [model_used |-> TRUE, raw_model_output |-> "raw"]

JsonResult(base_result, model_output, bundle, model) ==
    JsonFromValidated([i \in 1..Len(model_output.hypotheses) |->
                          ValidatedHypothesis(model_output.hypotheses[i])],
                      base_result, model_output, bundle, model)

\* reason(), hybrid path: the ranking, then the prose for the first hypotheses
HybridHypotheses(hypotheses, model) ==
    IF ~(model.model_loaded /\ hypotheses # <<>>) THEN hypotheses
    ELSE [i \in 1..Len(hypotheses) |->
            IF i <= HYBRID_REASON_TOP_N /\ model.reasoning_reply # ""
            THEN [_model_rank_hypotheses(hypotheses, model.ranking_reply)[i]
                     EXCEPT !.reasoning = model.reasoning_reply]
            ELSE _model_rank_hypotheses(hypotheses, model.ranking_reply)[i]]

\* reason(), from the hybrid hypotheses on
HybridResult(hypotheses, base_result, bundle, model) ==
    ReasonResult(
        hypotheses,
        ActionStep(base_result.patient_actions, model),
        base_result.red_flags,
        NoveltyStep([novel_insights |-> <<>>, novel_actions |-> <<>>,
                     provenance |->
                        IF model.model_loaded /\ hypotheses # <<>>
                        THEN [kg_grounded |-> TRUE, notes |->
                     "Hybrid: KG-grounded reasoning with model-augmented ranking and explanations."]
                        ELSE LiteProvenance],
                    model, hypotheses, bundle))
    @@ [model_used |-> model.model_loaded]

ReasonFrom(base_result, bundle, model) ==
    IF model.lite_mode THEN base_result
    ELSE IF JsonUsed(model) THEN JsonResult(base_result, model.json_reply[1], bundle, model)
    ELSE HybridResult(HybridHypotheses(base_result.hypotheses, model), base_result, bundle, model)

\* model: [lite_mode, model_loaded, use_hypothesis_json, json_reply,
\* ranking_reply, reasoning_reply, use_action_model, action_reply, novelty_env,
\* novelty_reply, rank_top_n], the mode, the environment switches (rank_top_n is
\* HYBRID_RANK_TOP_N as the environment sets it) and what each collaborator
\* call answers.  json_reply is <<>> when the hypothesis_generation call raises
\* or yields no usable JSON, else <<model_output>>.
reason(card, bundle, model) == ReasonFrom(_reason_lite_mode(card, bundle), bundle, model)

(***************************************************************************)
(* The critic (critic_medgemma.py, app.py 449-498), the sanitizer (app.py  *)
(* 629-651) and the REASON and CRITIC steps of _run_pipeline, followed by  *)
(* the cross-turn merge of /analyze and of _stream_pipeline.               *)
(***************************************************************************)
\* "for op in ops: if op == remove_hypothesis": one op
RemoveHypothesisOp(out, op) ==
    IF op.op # "remove_hypothesis" \/ op.id = "" THEN out
    ELSE LET hs == Get(out, "hypotheses", <<>>)
         IN  WithKey(out, "hypotheses",
                     Flatten([k \in 1..Len(hs) |->
                         IF Upper(Get(hs[k], "id", "")) # op.id THEN <<hs[k]>> ELSE <<>>]))

\* "for op in ops: if op == lower_confidence": one op
LowerConfidenceOp(out, op) ==
    IF op.op # "lower_confidence" \/ op.id = "" THEN out
    ELSE LET hs == Get(out, "hypotheses", <<>>)
         IN  IF hs = <<>> THEN out
             ELSE WithKey(out, "hypotheses",
                     [k \in 1..Len(hs) |->
                         IF Upper(Get(hs[k], "id", "")) = op.id
                         THEN WithKey(hs[k], "confidence", Max(0, Min(100, op.value)))
                         ELSE hs[k]])

\* "for op in ops: if op == remove_action": one op
RemoveActionOp(out, op) ==
    IF op.op # "remove_action" \/ op.scope \notin {"patient_actions", "novel_actions"}
    THEN out
    ELSE LET lst == Get(out, op.scope, <<>>)
         IN  IF 0 <= op.index /\ op.index < Len(lst)
             THEN WithKey(out, op.scope, DelAt(lst, op.index))
             ELSE out

_apply_critic_ops(out, ops) ==
    IF ops = <<>> THEN out
    ELSE LET removed == FoldLeft(RemoveHypothesisOp, out, ops)
             lowered == FoldLeft(LowerConfidenceOp, removed, ops)
             pruned == FoldLeft(RemoveActionOp, lowered, ops)
         IN  IF Get(pruned, "hypotheses", <<>>) # <<>>
             THEN WithKey(pruned, "hypotheses", SortedDesc(pruned.hypotheses, "confidence"))
             ELSE pruned

\* next_tests of the model are dicts (a string item is not modelled)
SanitizeTests(tests) ==
    Flatten([k \in 1..Len(tests) |->
        IF Get(tests[k], "test_id", "") # "" \/ Get(tests[k], "label", "") # ""
        THEN << [test_id |-> Get(tests[k], "test_id", ""),
                 label |-> Get(tests[k], "label", "")] >>
        ELSE <<>>])

_sanitize_reasoner_output(output) ==
    IF DOMAIN output = {} THEN output
    ELSE LET hs == Get(output, "hypotheses", <<>>)
             acts == Get(output, "patient_actions", <<>>)
             withHyps == WithKey(output, "hypotheses",
                            [k \in 1..Len(hs) |->
                                WithKey(hs[k], "next_tests",
                                        SanitizeTests(Get(hs[k], "next_tests", <<>>)))])
         IN  WithKey(withHyps, "patient_actions",
                Flatten([k \in 1..Len(acts) |->
                    IF "task" \in DOMAIN acts[k] /\ acts[k].task \notin {"", " "}
                    THEN <<acts[k]>> ELSE <<>>]))

\* _merge_reasoner_output on plain dicts; prev is <<>> for None, else <<dict>>
MergePlain(prev, new) ==
    Plain(_merge_reasoner_output(IF prev = <<>> THEN NoneObj ELSE Alloc(prev[1], 1000),
                                 Alloc(new, 2000), 3000))

\* app.py 294-299: the fallback to the provisional output, the sanitizer
ReasonFallback(out, provisional_reasoner_output, turn) ==
    _sanitize_reasoner_output(
        IF turn.streamed /\ ~Get(out, "hypotheses_valid", FALSE)
        THEN IF /\ turn.merge_with_current
                /\ turn.prev # <<>>
                /\ _is_valid_hypotheses(Alloc(turn.prev[1], 1000))
             THEN MergePlain(turn.prev, provisional_reasoner_output)
             ELSE provisional_reasoner_output
        ELSE out)

\* app.py 275-300: the provisional stage-1 output of a streamed run, reason(),
\* the fallback, the sanitizer
ReasonStep(card, bundle, model, turn) ==
    ReasonFallback(reason(card, bundle, model),
                   _sanitize_reasoner_output(
                       WithKey(_reason_lite_mode(card, bundle), "provisional", TRUE)),
                   turn)

\* app.py 844-849 and 692-698: the merge with the stored output, the sanitizer
MergeStep(out, turn) ==
    _sanitize_reasoner_output(
        IF turn.merge_with_current THEN MergePlain(turn.prev, out) ELSE out)

(***************************************************************************)
(* One turn, from the labs to the reasoner output that is stored:          *)
(* EVIDENCE_SCORE, REASON, CRITIC, and the cross-turn merge.  rs_input     *)
(* holds the abnormal labs, the case card, what the collaborators answer   *)
(* (model) and the request (turn: streamed or not, merge_with_current, the *)
(* stored output of the earlier turn).                                     *)
(***************************************************************************)

RsBundle(labs, signals) == build_evidence(labs, signals, EvEdges, <<>>).bundle

NoModel ==
    [lite_mode |-> TRUE, model_loaded |-> FALSE, use_hypothesis_json |-> FALSE,
     json_reply |-> <<>>, ranking_reply |-> <<>>, reasoning_reply |-> "",
     use_action_model |-> FALSE, action_reply |-> <<>>,
     novelty_env |-> "off", novelty_reply |-> <<>>,
     rank_top_n |-> HYBRID_RANK_TOP_N]

\* a loaded model whose calls all fail
LoadedModel == [NoModel EXCEPT !.lite_mode = FALSE, !.model_loaded = TRUE]

ReasonIdle ==
    /\ rs_input = <<>>
    /\ rs_bundle = <<>>
    /\ rs_output = <<>>
    /\ rs_critic_result = <<>>
    /\ rs_pc = "idle"

\* the EVIDENCE_SCORE step (rule-based weights)
Score ==
    /\ rs_pc = "ready"
    /\ rs_bundle' = RsBundle(rs_input.labs, rs_input.case_card.signals)
    /\ rs_pc' = "scored"
    /\ UNCHANGED <<rs_input, rs_output, rs_critic_result>>
    /\ UNCHANGED notReason

\* the REASON step
Reason ==
    /\ rs_pc = "scored"
    /\ rs_output' = ReasonStep(rs_input.case_card, rs_bundle, rs_input.model, rs_input.turn)
    /\ rs_pc' = "reasoned"
    /\ UNCHANGED <<rs_input, rs_bundle, rs_critic_result>>
    /\ UNCHANGED notReason

\* the CRITIC step: run_critic, then _apply_critic_ops when there are ops
Critic ==
    /\ rs_pc = "reasoned"
    /\ \E ops \in (IF ~rs_input.model.lite_mode /\ rs_input.model.model_loaded
                   THEN ({ <<>>,
                         << [op |-> "remove_hypothesis", id |-> "H1"] >>,
                         << [op |-> "lower_confidence", id |-> "H1", value |-> 30] >>,
                         << [op |-> "lower_confidence", id |-> "H1", value |-> 150],
                            [op |-> "lower_confidence", id |-> "H2", value |-> -20] >>,
                         << [op |-> "lower_confidence", id |-> "H2", value |-> 95] >>,
                         << [op |-> "remove_action", scope |-> "patient_actions", index |-> 0],
                            [op |-> "remove_action", scope |-> "red_flags", index |-> 0] >> }) ELSE {<<>>}) :
          /\ rs_critic_result' = ops
          /\ rs_output' = _apply_critic_ops(rs_output, ops)
    /\ rs_pc' = "criticized"
    /\ UNCHANGED <<rs_input, rs_bundle>>
    /\ UNCHANGED notReason

\* the end of the turn: the merge with the stored output when the request asks
\* for it, and the sanitizer
MergeTurn ==
    /\ rs_pc = "criticized"
    /\ rs_output' = MergeStep(rs_output, rs_input.turn)
    /\ rs_pc' = "merged"
    /\ UNCHANGED <<rs_input, rs_bundle, rs_critic_result>>
    /\ UNCHANGED notReason

(***************************************************************************)
(* The knowledge-graph store (kg_store.py).  graph.json is data: the model *)
(* keeps a small static graph with the shapes the traversal distinguishes: *)
(* markers, patterns one edge from a marker, a condition two edges away    *)
(* and a test three edges away, with edges stored in either direction.     *)
(***************************************************************************)
\* self.nodes: the static nodes
KgNodes ==
    << [id |-> "c_anemia", type |-> "Condition", label |-> "Anemia"],
       [id |-> "m_ferritin", type |-> "Marker", label |-> "Ferritin"],
       [id |-> "m_hscrp", type |-> "Marker", label |-> "hsCRP"],
       [id |-> "m_tsh", type |-> "Marker", label |-> "TSH"],
       [id |-> "p_hypothyroid", type |-> "Pattern", label |-> "Hypothyroid pattern"],
       [id |-> "p_inflam_iron_seq", type |-> "Pattern",
        label |-> "Inflammation-mediated iron sequestration"],
       [id |-> "p_iron_def", type |-> "Pattern", label |-> "Iron deficiency"],
       [id |-> "t_cbc", type |-> "Test", label |-> "CBC"] >>

\* self.edges: the static edges
KgEdges ==
    << [id |-> "e_ferr_irondef", from |-> "m_ferritin", to |-> "p_iron_def",
        relation |-> "SUPPORTS"],
       [id |-> "e_inflam_ferr", from |-> "p_inflam_iron_seq", to |-> "m_ferritin",
        relation |-> "INCREASES"],
       [id |-> "e_crp_inflam", from |-> "m_hscrp", to |-> "p_inflam_iron_seq",
        relation |-> "SUPPORTS"],
       [id |-> "e_irondef_anemia", from |-> "p_iron_def", to |-> "c_anemia",
        relation |-> "CAUSES"],
       [id |-> "e_anemia_cbc", from |-> "c_anemia", to |-> "t_cbc",
        relation |-> "SUPPORTS"],
       [id |-> "e_tsh_hypo", from |-> "m_tsh", to |-> "p_hypothyroid",
        relation |-> "SUPPORTS"] >>

\* sorted(ids) of Python for a set of node ids: the ids of the model in
\* lexicographic order, restricted to the set
sorted(ids) ==
    SelectSeq(<< "c_anemia", "m_anc", "m_ferritin", "m_hscrp", "m_tsh", "p_hypothyroid",
                 "p_inflam_iron_seq", "p_iron_def", "s_fatigue", "s_joint_pain",
                 "t_cbc" >>, LAMBDA x : x \in ids)

\* self.adj[nid]: an edge is listed under both of its endpoints
adj(nid) == {e \in Range(KgEdges) : e.from = nid \/ e.to = nid}

\* the loop of get_neighbors, k iterations to go: a node of current is added to
\* visited when the iteration examines it, so the nodes of the last next_level
\* are never added
RECURSIVE get_neighbors_loop(_, _, _)
get_neighbors_loop(visited, current, k) ==
    IF k = 0 THEN visited
    ELSE LET fresh == current \ visited
         IN get_neighbors_loop(visited \cup fresh,
                UNION {{IF e.from = n THEN e.to ELSE e.from : e \in adj(n)} : n \in fresh},
                k - 1)

get_neighbors(node_id, hops) == get_neighbors_loop({}, {node_id}, hops) \ {node_id}

\* subgraph_from_markers without the tiers: one sorted list, then the cap
subgraph_from_markers_untiered(marker_ids, hops, max_nodes, priority_1) ==
    LET marker_set == Range(marker_ids) \cap {KgNodes[i].id : i \in 1..Len(KgNodes)}
        edge_incident == UNION {{e.from, e.to} : e \in UNION {adj(nid) : nid \in marker_set}}
        ordered == sorted(marker_set \cup edge_incident
                       \cup UNION {get_neighbors(marker, hops) : marker \in marker_set})
        all_nodes == SubSeq(ordered, 1, Min(max_nodes, Len(ordered)))
    IN [nodes |-> [i \in 1..Len(all_nodes) |->
                      CHOOSE n \in Range(KgNodes) : n.id = all_nodes[i]],
        edges |-> SelectSeq(KgEdges, LAMBDA e : e.from \in Range(all_nodes)
                                                /\ e.to \in Range(all_nodes))]

\* subgraph_from_markers; priority_1 is list(marker_set), the iteration order of
\* a set of strings, which the caller of the model chooses
subgraph_from_markers(marker_ids, hops, max_nodes, priority_1) ==
    LET marker_set == Range(marker_ids) \cap {KgNodes[i].id : i \in 1..Len(KgNodes)}
        edge_incident == UNION {{e.from, e.to} : e \in UNION {adj(nid) : nid \in marker_set}}
        priority_2 == sorted(edge_incident \ marker_set)
        all_2hop == marker_set \cup edge_incident
                       \cup UNION {get_neighbors(marker, hops) : marker \in marker_set}
        remainder == sorted((all_2hop \ marker_set) \ edge_incident)
        ordered == priority_1 \o priority_2 \o remainder
        all_nodes == SubSeq(ordered, 1, Min(max_nodes, Len(ordered)))
    IN [nodes |-> [i \in 1..Len(all_nodes) |->
                      CHOOSE n \in Range(KgNodes) : n.id = all_nodes[i]],
        edges |-> SelectSeq(KgEdges, LAMBDA e : e.from \in Range(all_nodes)
                                                /\ e.to \in Range(all_nodes))]

\* the orders list(marker_set) can have
SetOrders(S) ==
    {s \in [1..Cardinality(S) -> S] : \A i, j \in 1..Cardinality(S) : s[i] = s[j] => i = j}

KgIdle ==
    /\ kg_input = <<>>
    /\ kg_subgraph = None
    /\ kg_pc = "idle"

\* one call of subgraph_from_markers
SubgraphFromMarkers ==
    /\ kg_pc = "ready"
    /\ \E priority_1 \in SetOrders(Range(kg_input.marker_ids)
                                     \cap {KgNodes[i].id : i \in 1..Len(KgNodes)}) :
          kg_subgraph' = subgraph_from_markers(kg_input.marker_ids, kg_input.hops,
                                               kg_input.max_nodes, priority_1)
    /\ kg_pc' = "done"
    /\ UNCHANGED kg_input
    /\ UNCHANGED notKg

(***************************************************************************)
(* _run_pipeline up to the CRITIC step (app.py 208-316), with the          *)
(* functions the CONTEXT_SELECT step calls: normalize_labs, select_context,*)
(* extend_subgraph and map_symptoms_to_graph.  The rule tables             *)
(* (marker_to_node.yml, dynamic_marker_edges.yml, symptom_to_pattern.yml)  *)
(* are data; the model keeps a few entries of each.  Labs come in their    *)
(* standard unit, so normalize_unit leaves the value alone.                *)
(***************************************************************************)
\* class Step of events.py
Step == {"LAB_NORMALIZE", "CONTEXT_SELECT", "EVIDENCE_SCORE", "REASON", "GUARDRAILS", "FINAL"}

normalize_labs(raw_labs) ==
    [i \in 1..Len(raw_labs) |->
        [marker |-> IF raw_labs[i].marker = "Thyrotropin" THEN "TSH" ELSE raw_labs[i].marker,
         value |-> raw_labs[i].value,
         status |-> IF raw_labs[i].ref_low = 0 /\ raw_labs[i].ref_high = 0
                    THEN "REFERENCE_UNKNOWN"
                    ELSE IF raw_labs[i].value < raw_labs[i].ref_low THEN "LOW"
                    ELSE IF raw_labs[i].value > raw_labs[i].ref_high THEN "HIGH"
                    ELSE "NORMAL"]]

\* MARKER_TO_NODE.get(marker, "m_" + marker.lower().replace(" ", "_"))
_marker_to_nid(marker) ==
    CASE marker = "Ferritin" -> "m_ferritin"
      [] marker = "hsCRP" -> "m_hscrp"
      [] marker = "TSH" -> "m_tsh"
      [] marker \in {"ANC", "anc"} -> "m_anc"
      [] marker = "Vitamin D" -> "m_vitamin_d"

_rule_based_signals(abnormal_markers) ==
    (IF Range(abnormal_markers) \cap {"Ferritin", "Iron", "TSAT", "Hb"} # {}
     THEN <<"p_iron_def">> ELSE <<>>)
    \o (IF Range(abnormal_markers) \cap {"TSH", "FT4", "FT3"} # {}
        THEN <<"p_hypothyroid">> ELSE <<>>)
    \o (IF "hsCRP" \in Range(abnormal_markers) THEN <<"p_inflam_iron_seq">> ELSE <<>>)
    \o (IF "ANC" \in Range(abnormal_markers) THEN <<"p_inflam_iron_seq">> ELSE <<>>)

\* select_context without the context_selection collaborator (lite mode, or
\* USE_CONTEXT_SELECTION_MODEL off, its default); subgraph is what
\* kg_store.subgraph_from_markers(sorted(set(abnormal_marker_node_ids))) returned
select_context(labs, subgraph) ==
    LET abnormal == SelectSeq(labs, LAMBDA lab : lab.status # "NORMAL")
        abnormal_markers == [i \in 1..Len(abnormal) |-> abnormal[i].marker]
        derived_signals ==
            sorted({n.id : n \in {m \in Range(subgraph.nodes) :
                                     m.type \in {"Pattern", "Condition"}}})
    IN  [abnormal_markers |-> abnormal_markers,
         abnormal_marker_node_ids |->
             [i \in 1..Len(abnormal) |-> _marker_to_nid(abnormal[i].marker)],
         signals |-> IF derived_signals = <<>> THEN _rule_based_signals(abnormal_markers)
                     ELSE derived_signals]

\* dynamic_marker_edges.yml: config.get(key)
DynamicMarkerEdges(key) ==
    IF key = "ANC"
    THEN << [pattern_id |-> "p_inflam_iron_seq", relation |-> "SUPPORTS",
             rationale |-> "Neutrophil count changes accompany inflammation"],
            [pattern_id |-> "p_hypothyroid", relation |-> "", rationale |-> ""] >>
    ELSE <<>>

\* extend_subgraph(case_card, subgraph): the (subgraph, suggested_kg_additions) pair
extend_subgraph(card, subgraph) ==
    LET \* str.replace("m_", "") and str.replace("p_", "") for the ids of the model
        WithoutPrefix(nid) ==
            CASE nid = "m_anc" -> "anc"
              [] nid = "m_vitamin_d" -> "vitamin_d"
              [] nid = "p_inflam_iron_seq" -> "inflam_iron_seq"
              [] nid = "p_iron_def" -> "iron_def"
              [] nid = "p_hypothyroid" -> "hypothyroid"
              [] OTHER -> nid
        marker_to_label(nid) ==
            LET at == {i \in 1..Len(card.abnormal_markers) :
                          _marker_to_nid(card.abnormal_markers[i]) = nid}
            IN  IF at = {} THEN nid
                ELSE card.abnormal_markers[CHOOSE i \in at : \A j \in at : j <= i]
        dynamic_ids == SelectSeq(card.abnormal_marker_node_ids,
                           LAMBDA nid : \A n \in Range(subgraph.nodes) : n.id # nid)
        AddNode(acc, node_id) ==
            LET node_payload == [id |-> node_id, type |-> "Marker",
                                 label |-> marker_to_label(node_id), dynamic |-> TRUE]
                AddRule(a, rule) ==
                    IF rule.pattern_id = "" \/ rule.pattern_id \notin Range(card.signals)
                    THEN a
                    ELSE IF \A n \in Range(a.nodes) : n.id # rule.pattern_id
                    THEN a
                    ELSE [a EXCEPT
                            !.edge_counter = @ + 1,
                            !.edges = Append(@,
                                [id |-> "e_dyn_" \o WithoutPrefix(node_id) \o "_"
                                           \o WithoutPrefix(rule.pattern_id) \o "_"
                                           \o ToString(a.edge_counter + 1),
                                 from |-> node_id, to |-> rule.pattern_id,
                                 relation |-> IF rule.relation = "" THEN "SUPPORTS"
                                              ELSE rule.relation,
                                 rationale |-> rule.rationale, source_label |-> "dynamic"]),
                            !.suggested_edges = Append(@,
                                [from |-> node_id, to |-> rule.pattern_id,
                                 relation |-> IF rule.relation = "" THEN "SUPPORTS"
                                              ELSE rule.relation,
                                 rationale |-> rule.rationale])]
            IN  FoldLeft(AddRule,
                         [acc EXCEPT !.nodes = Append(@, node_payload),
                                     !.suggested_nodes = Append(@, node_payload)],
                         IF DynamicMarkerEdges(marker_to_label(node_id)) # <<>>
                         THEN DynamicMarkerEdges(marker_to_label(node_id))
                         ELSE DynamicMarkerEdges(node_id))
        acc == FoldLeft(AddNode,
                        [nodes |-> subgraph.nodes, edges |-> subgraph.edges,
                         suggested_nodes |-> <<>>, suggested_edges |-> <<>>,
                         edge_counter |-> 0],
                        dynamic_ids)
    IN  [subgraph |-> [nodes |-> acc.nodes, edges |-> acc.edges],
         additions |-> [nodes |-> acc.suggested_nodes, edges |-> acc.suggested_edges]]

\* str.strip() for the tokens of the model
strip(token) ==
    CASE token = "Fatigue " -> "Fatigue"
      [] token = "  " -> ""
      [] OTHER -> token

\* "s_" + re.sub(r"[^\w\-]", "_", token.strip().lower()), "s_unknown" for an empty token
_symptom_to_node_id(token) ==
    CASE token \in {"fatigue", "Fatigue", "Fatigue "} -> "s_fatigue"
      [] token \in {"joint pain", "joint_pain"} -> "s_joint_pain"
      [] token = "night sweats" -> "s_night_sweats"
      [] OTHER -> "s_unknown"

\* symptom_to_pattern.yml looked up by token.strip().lower(), then by the token:
\* the first rule, <<>> for the empty dict
_get_rule_suggestion(token) ==
    CASE token \in {"fatigue", "Fatigue", "Fatigue "} ->
           << [pattern_id |-> "p_iron_def", relation |-> "SUPPORTS",
               rationale |-> "Fatigue is common in iron deficiency"] >>
      [] token = "joint pain" ->
           << [pattern_id |-> "p_inflam_iron_seq", relation |-> "",
               rationale |-> ""] >>
      [] OTHER -> <<>>

\* the test before a symptom node and its edge are appended, without the two
\* membership tests
SymptomEdgeAllowedAnywhere(action, pattern_id, signals, subgraph_node_ids) ==
    action \in {"keep", "change"} /\ pattern_id # ""

\* the test before a symptom node and its edge are appended
SymptomEdgeAllowed(action, pattern_id, signals, subgraph_node_ids) ==
    /\ action \in {"keep", "change"} /\ pattern_id # ""
    /\ pattern_id \in signals /\ pattern_id \in subgraph_node_ids

\* map_symptoms_to_graph: (nodes_to_add, edges_to_add, unmappable).  model is
\* [lite_mode, model_loaded, symptom_reply]; symptom_reply is response["json"] of
\* the generate call of _call_model_for_token, <<>> when the call raises or the
\* reply carries no JSON object
map_symptoms_to_graph(symptom_tokens, card, subgraph, model) ==
    LET _call_model_for_token ==
            IF model.symptom_reply = <<>> THEN [action |-> "do_not_map"]
            ELSE LET data == model.symptom_reply[1]
                     action == CASE data.action = "KEEP" -> "keep"
                                 [] OTHER -> data.action
                 IN  IF action \in {"keep", "change"} /\ data.pattern_id # ""
                     THEN [action |-> action, pattern_id |-> data.pattern_id,
                           relation |-> IF data.relation = "" THEN "SUPPORTS"
                                        ELSE data.relation,
                           rationale |-> ""]
                     ELSE [action |-> "do_not_map"]
        MapToken(acc, raw_token) ==
            LET token == strip(raw_token)
                node_id == _symptom_to_node_id(token)
                suggested == _get_rule_suggestion(token)
                result ==
                    IF model.lite_mode \/ ~model.model_loaded
                    THEN IF suggested # <<>> /\ suggested[1].pattern_id \in Range(card.signals)
                         THEN [action |-> "keep", pattern_id |-> suggested[1].pattern_id,
                               relation |-> IF suggested[1].relation = "" THEN "SUPPORTS"
                                            ELSE suggested[1].relation,
                               rationale |-> suggested[1].rationale]
                         ELSE [action |-> "do_not_map"]
                    ELSE _call_model_for_token
            IN  IF raw_token = "" THEN acc
                ELSE IF node_id \in acc.subgraph_node_ids THEN acc
                ELSE IF SymptomEdgeAllowed(result.action, Get(result, "pattern_id", ""),
                                           Range(card.signals), acc.subgraph_node_ids)
                THEN [acc EXCEPT
                        !.nodes = Append(@,
                            [id |-> node_id, type |-> "Symptom",
                             label |-> IF token = "joint_pain" THEN "joint pain" ELSE token,
                             dynamic |-> TRUE]),
                        !.subgraph_node_ids = @ \cup {node_id},
                        !.edge_counter = @ + 1,
                        !.edges = Append(@,
                            [id |-> "e_sym_" \o node_id \o "_" \o result.pattern_id \o "_"
                                       \o ToString(acc.edge_counter + 1),
                             from |-> node_id, to |-> result.pattern_id,
                             relation |-> result.relation, rationale |-> result.rationale,
                             source_label |-> "symptom_mapper"])]
                ELSE [acc EXCEPT !.unmappable = Append(@, token)]
        acc == FoldLeft(MapToken,
                        [nodes |-> <<>>, edges |-> <<>>, unmappable |-> <<>>,
                         subgraph_node_ids |->
                             {subgraph.nodes[i].id : i \in 1..Len(subgraph.nodes)},
                         edge_counter |-> 0],
                        symptom_tokens)
    IN  [nodes |-> acc.nodes, edges |-> acc.edges, unmappable |-> acc.unmappable]

PlIdle ==
    /\ pl_case = <<>>
    /\ pl_labs = <<>>
    /\ pl_case_card = <<>>
    /\ pl_subgraph = <<>>
    /\ pl_additions = <<>>
    /\ pl_symptoms = <<>>
    /\ pl_bundle = <<>>
    /\ pl_output = <<>>
    /\ pl_steps = <<>>
    /\ pl_pc = "idle"

\* LAB_NORMALIZE
LabNormalize ==
    /\ pl_pc = "start"
    /\ pl_labs' = normalize_labs(pl_case.labs)
    /\ pl_steps' = Append(pl_steps, "LAB_NORMALIZE")
    /\ pl_pc' = "normalized"
    /\ UNCHANGED <<pl_case, pl_case_card, pl_subgraph, pl_additions, pl_symptoms, pl_bundle,
                   pl_output>>
    /\ UNCHANGED notPl

\* CONTEXT_SELECT, first call: select_context
SelectContext ==
    /\ pl_pc = "normalized"
    /\ LET anchors == sorted({_marker_to_nid(lab.marker) :
                                 lab \in {l \in Range(pl_labs) : l.status # "NORMAL"}})
       IN  \E priority_1 \in SetOrders(Range(anchors)
                                         \cap {KgNodes[i].id : i \in 1..Len(KgNodes)}) :
              /\ pl_subgraph' = subgraph_from_markers(anchors, 2, 60, priority_1)
              /\ pl_case_card' = select_context(pl_labs, pl_subgraph')
    /\ pl_steps' = Append(pl_steps, "CONTEXT_SELECT")
    /\ pl_pc' = "selected"
    /\ UNCHANGED <<pl_case, pl_labs, pl_additions, pl_symptoms, pl_bundle,
                   pl_output>>
    /\ UNCHANGED notPl

\* CONTEXT_SELECT, second call: extend_subgraph
ExtendSubgraph ==
    /\ pl_pc = "selected"
    /\ pl_subgraph' = extend_subgraph(pl_case_card, pl_subgraph).subgraph
    /\ pl_additions' = extend_subgraph(pl_case_card, pl_subgraph).additions
    /\ pl_pc' = "extended"
    /\ UNCHANGED <<pl_case, pl_labs, pl_case_card, pl_symptoms, pl_bundle, pl_output,
                   pl_steps>>
    /\ UNCHANGED notPl

\* CONTEXT_SELECT, third call: map_symptoms_to_graph, and the merge of what it
\* returns into the subgraph and the suggested additions
MapSymptoms ==
    /\ pl_pc = "extended"
    /\ pl_symptoms' = map_symptoms_to_graph(pl_case.symptom_tokens, pl_case_card,
                                            pl_subgraph, pl_case.model)
    /\ pl_subgraph' = [nodes |-> pl_subgraph.nodes \o pl_symptoms'.nodes,
                       edges |-> pl_subgraph.edges \o pl_symptoms'.edges]
    /\ pl_additions' =
          [nodes |-> pl_additions.nodes \o pl_symptoms'.nodes,
           edges |-> pl_additions.edges \o
                     [i \in 1..Len(pl_symptoms'.edges) |->
                         [from |-> pl_symptoms'.edges[i].from, to |-> pl_symptoms'.edges[i].to,
                          relation |-> pl_symptoms'.edges[i].relation,
                          rationale |-> pl_symptoms'.edges[i].rationale]]]
    /\ pl_pc' = "mapped"
    /\ UNCHANGED <<pl_case, pl_labs, pl_case_card, pl_bundle, pl_output, pl_steps>>
    /\ UNCHANGED notPl

\* EVIDENCE_SCORE: build_evidence over zip(abnormal_markers,
\* abnormal_marker_node_ids) with marker_status keyed by marker (the last lab of a
\* marker wins)
EvidenceScore ==
    /\ pl_pc = "mapped"
    /\ LET labs == [i \in 1..Len(pl_case_card.abnormal_markers) |->
                      [marker |-> pl_case_card.abnormal_markers[i],
                       node_id |-> pl_case_card.abnormal_marker_node_ids[i],
                       status |-> pl_labs[CHOOSE k \in 1..Len(pl_labs) :
                                     /\ pl_labs[k].marker = pl_case_card.abnormal_markers[i]
                                     /\ \A j \in (k + 1)..Len(pl_labs) :
                                           pl_labs[j].marker # pl_labs[k].marker].status]]
       IN  pl_bundle' = build_evidence(labs, pl_case_card.signals,
                                       pl_subgraph.edges, <<>>).bundle
    /\ pl_steps' = Append(pl_steps, "EVIDENCE_SCORE")
    /\ pl_pc' = "scored"
    /\ UNCHANGED <<pl_case, pl_labs, pl_case_card, pl_subgraph, pl_additions, pl_symptoms,
                   pl_output>>
    /\ UNCHANGED notPl

\* REASON: reason (lite mode) and the sanitizer
ReasonStage ==
    /\ pl_pc = "scored"
    /\ pl_output' = ReasonStep(pl_case_card, pl_bundle, NoModel,
                               [streamed |-> FALSE, merge_with_current |-> FALSE,
                                prev |-> <<>>])
    /\ pl_steps' = Append(pl_steps, "REASON")
    /\ pl_pc' = "reasoned"
    /\ UNCHANGED <<pl_case, pl_labs, pl_case_card, pl_subgraph, pl_additions, pl_symptoms,
                   pl_bundle>>
    /\ UNCHANGED notPl

\* CRITIC: events.start_step(events_list, events.Step.CRITIC) looks the member up
\* before anything else of the step runs; run_critic returns no ops in lite mode
CriticStage ==
    /\ pl_pc = "reasoned"
    /\ IF "CRITIC" \in Step
       THEN /\ pl_steps' = Append(pl_steps, "CRITIC")
            /\ pl_pc' = "criticized"
       ELSE /\ pl_steps' = pl_steps
            /\ pl_pc' = "raised"
    /\ UNCHANGED <<pl_case, pl_labs, pl_case_card, pl_subgraph, pl_additions, pl_symptoms,
                   pl_bundle, pl_output>>
    /\ UNCHANGED notPl

(***************************************************************************)
(* _stream_pipeline (app.py 672-727).  runner() is the worker thread: it   *)
(* calls _run_pipeline, whose EventList puts every event on q and whose    *)
(* emit_callback puts the 'partial' message, then puts 'final' or 'error'  *)
(* and, in its finally clause, the end-of-stream item None.  gen() is the  *)
(* consumer: it takes items from q and yields them until it reads None.    *)
(* _run_pipeline is a collaborator of runner() here: sm_run.raise_at names *)
(* the step at which one of its calls raises, "STORE" stands for a raise   *)
(* after the result is written (app.py 707), "none" for a run that         *)
(* succeeds.                                                               *)
(***************************************************************************)
PipelineSteps ==
    <<"LAB_NORMALIZE", "CONTEXT_SELECT", "EVIDENCE_SCORE", "REASON", "CRITIC", "GUARDRAILS">>

\* the end-of-stream item, q.put(None)
EndOfStream == [type |-> "None"]

\* emit_event_item: the message put for one appended event
EventMessage(step, event_type) == [type |-> "events", step |-> step, event |-> event_type]

\* the messages put on q through events_list.append and emit_callback, up to
\* the step that raises.  normalize_labs is called before LAB_NORMALIZE is
\* started; every other step is started before its calls.  When the run
\* returns, _write_pipeline_output deep-copies the result (app.py 509): the
\* copy of the EventList is filled through append, which puts every event on q
\* a second time.
RunMessages(run) ==
    LET stop == IF \E i \in 1..Len(PipelineSteps) : PipelineSteps[i] = run.raise_at
                THEN CHOOSE i \in 1..Len(PipelineSteps) : PipelineSteps[i] = run.raise_at
                ELSE Len(PipelineSteps) + 1
        OfStep(i) ==
            (IF i < stop
             THEN << EventMessage(PipelineSteps[i], "STEP_START"),
                     EventMessage(PipelineSteps[i], "STEP_END") >>
             ELSE IF i = stop /\ i > 1
             THEN << EventMessage(PipelineSteps[i], "STEP_START") >>
             ELSE <<>>)
            \o (IF PipelineSteps[i] = "EVIDENCE_SCORE" /\ i < stop /\ run.partial_ok
                THEN << [type |-> "partial", provisional |-> TRUE] >>
                ELSE <<>>)
        events == Flatten([i \in 1..Len(PipelineSteps) |-> OfStep(i)])
    IN  IF stop <= Len(PipelineSteps) THEN events
        ELSE events \o << EventMessage("FINAL", "FINAL_READY") >>
             \o SelectSeq(events, LAMBDA m : m.type = "events")
             \o << EventMessage("FINAL", "FINAL_READY") >>

\* item = q.get() on a non-empty queue: the oldest item, and the queue without it
queue_get_newest(queue) ==
    [item |-> queue[Len(queue)], rest |-> SubSeq(queue, 1, Len(queue) - 1)]

queue_get(queue) == [item |-> Head(queue), rest |-> Tail(queue)]

StreamIdle ==
    /\ sm_run = <<>>
    /\ sm_q = <<>>
    /\ sm_put = <<>>
    /\ sm_yielded = <<>>
    /\ sm_emitted = 0
    /\ sm_pc = "idle"
    /\ sm_gen = "idle"

\* runner(), inside _run_pipeline: one q.put of emit_event_item or emit_payload
Emit ==
    /\ sm_pc = "running"
    /\ sm_emitted < Len(RunMessages(sm_run))
    /\ sm_q' = Append(sm_q, RunMessages(sm_run)[sm_emitted + 1])
    /\ sm_put' = Append(sm_put, RunMessages(sm_run)[sm_emitted + 1])
    /\ sm_emitted' = sm_emitted + 1
    /\ UNCHANGED <<sm_run, sm_yielded, sm_pc, sm_gen>>
    /\ UNCHANGED notStream

\* runner(): the try block ran to its end, q.put({"type": "final", ...})
RunnerFinal ==
    /\ sm_pc = "running"
    /\ sm_emitted = Len(RunMessages(sm_run))
    /\ sm_run.raise_at = "none"
    /\ sm_q' = Append(sm_q, [type |-> "final"])
    /\ sm_put' = Append(sm_put, [type |-> "final"])
    /\ sm_pc' = "finally"
    /\ UNCHANGED <<sm_run, sm_yielded, sm_emitted, sm_gen>>
    /\ UNCHANGED notStream

\* runner(): except Exception, q.put({"type": "error", ...})
RunnerError ==
    /\ sm_pc = "running"
    /\ sm_emitted = Len(RunMessages(sm_run))
    /\ sm_run.raise_at # "none"
    /\ sm_q' = Append(sm_q, [type |-> "error"])
    /\ sm_put' = Append(sm_put, [type |-> "error"])
    /\ sm_pc' = "finally"
    /\ UNCHANGED <<sm_run, sm_yielded, sm_emitted, sm_gen>>
    /\ UNCHANGED notStream

\* runner() that ends without its finally clause
RunnerFinallySkipped ==
    /\ sm_pc = "finally"
    /\ sm_pc' = "done"
    /\ UNCHANGED <<sm_run, sm_q, sm_put, sm_yielded, sm_emitted, sm_gen>>
    /\ UNCHANGED notStream

\* runner(): finally, q.put(None)
RunnerFinally ==
    /\ sm_pc = "finally"
    /\ sm_q' = Append(sm_q, EndOfStream)
    /\ sm_put' = Append(sm_put, EndOfStream)
    /\ sm_pc' = "done"
    /\ UNCHANGED <<sm_run, sm_yielded, sm_emitted, sm_gen>>
    /\ UNCHANGED notStream

\* gen(): one turn of the loop; q.get() blocks while q is empty
Gen ==
    /\ sm_gen = "reading"
    /\ sm_q # <<>>
    /\ sm_q' = queue_get(sm_q).rest
    /\ IF queue_get(sm_q).item = EndOfStream
       THEN sm_gen' = "stopped" /\ sm_yielded' = sm_yielded
       ELSE sm_gen' = sm_gen /\ sm_yielded' = Append(sm_yielded, queue_get(sm_q).item)
    /\ UNCHANGED <<sm_run, sm_put, sm_emitted, sm_pc>>
    /\ UNCHANGED notStream

(***************************************************************************)
(* The process-wide cross-turn state (app.py 38-90) and the handlers that  *)
(* read and write it: /run (760-774), /analyze (833-859), the worker of a  *)
(* streamed run (686-711), DELETE /current-case (975-986), and a restart   *)
(* of the process (module load, 39-40 and 90).  A case and an output are   *)
(* named by the number of the request that made them.  Handlers run on     *)
(* threads, so their statements interleave; _run_pipeline is a             *)
(* collaborator here that returns a result or raises and touches none of   *)
(* this state.                                                             *)
(***************************************************************************)
MaxInFlight == 2
MaxRequests == 3

NoRequest == [pc |-> "idle"]

StateIdle ==
    /\ current_case = <<>>
    /\ current_output = <<>>
    /\ current_output_json = <<>>
    /\ requests = <<>>
    /\ served = 0

\* a request arrives at worker w.  /analyze and /analyze/stream build the case
\* from current_case when merge_with_current is set and there is a current
\* case (app.py 833-838, 885-890): base is the current case read here.  /run
\* and /run/stream are requests with merge_with_current = false.
Begin(w) ==
    /\ requests[w] = NoRequest
    /\ served < MaxRequests
    /\ \E merge_with_current \in BOOLEAN :
          requests' = [requests EXCEPT ![w] =
              [pc |-> "pipeline", n |-> served + 1,
               merge_with_current |-> merge_with_current,
               base |-> IF merge_with_current THEN current_case ELSE <<>>,
               prev_output |-> <<>>]]
    /\ served' = served + 1
    /\ UNCHANGED <<current_case, current_output, current_output_json>>
    /\ UNCHANGED notState

\* _run_pipeline, or a call after it, raises: HTTP 500, or 'error' on the stream
PipelineRaises(w) ==
    /\ requests[w].pc = "pipeline"
    /\ requests' = [requests EXCEPT ![w] = NoRequest]
    /\ UNCHANGED <<current_case, current_output, current_output_json, served>>
    /\ UNCHANGED notState

\* _run_pipeline has returned.  With merge_with_current: "if current_output is
\* None: current_output = _load_current_output()", and prev_output is the
\* stored output the new result is merged with (app.py 844-849, 692-698).
MergeWithStored(w) ==
    /\ requests[w].pc = "pipeline"
    /\ IF requests[w].merge_with_current
       THEN /\ current_output' = IF current_output = <<>> THEN current_output_json
                                 ELSE current_output
            /\ requests' = [requests EXCEPT ![w].pc = "case",
                                            ![w].prev_output = current_output']
       ELSE /\ current_output' = current_output
            /\ requests' = [requests EXCEPT ![w].pc = "case"]
    /\ UNCHANGED <<current_case, current_output_json, served>>
    /\ UNCHANGED notState

\* current_case = deepcopy(case)
WriteCase(w) ==
    /\ requests[w].pc = "case"
    /\ current_case' = <<requests[w].n>>
    /\ requests' = [requests EXCEPT ![w].pc = "output"]
    /\ UNCHANGED <<current_output, current_output_json, served>>
    /\ UNCHANGED notState

\* current_output = {"case_id": ..., "reasoner_output": ...}
WriteOutput(w) ==
    /\ requests[w].pc = "output"
    /\ current_output' = <<requests[w].n>>
    /\ requests' = [requests EXCEPT ![w].pc = "file"]
    /\ UNCHANGED <<current_case, current_output_json, served>>
    /\ UNCHANGED notState

\* _write_current_output(case_id, ...), and the response
WriteFile(w) ==
    /\ requests[w].pc = "file"
    /\ current_output_json' = <<requests[w].n>>
    /\ requests' = [requests EXCEPT ![w] = NoRequest]
    /\ UNCHANGED <<current_case, current_output, served>>
    /\ UNCHANGED notState

\* DELETE /current-case, between requests
clear_current_case ==
    /\ \A w \in DOMAIN requests : requests[w] = NoRequest
    /\ current_case # <<>> \/ current_output # <<>> \/ current_output_json # <<>>
    /\ current_case' = <<>>
    /\ current_output' = <<>>
    /\ current_output_json' = <<>>
    /\ UNCHANGED <<requests, served>>
    /\ UNCHANGED notState

\* the process is started again, between requests: current_case = None,
\* current_output = _load_current_output()
Restart ==
    /\ \A w \in DOMAIN requests : requests[w] = NoRequest
    /\ served > 0
    /\ current_case # <<>> \/ current_output # current_output_json
    /\ current_case' = <<>>
    /\ current_output' = current_output_json
    /\ UNCHANGED <<current_output_json, requests, served>>
    /\ UNCHANGED notState

(***************************************************************************)
(* Specifications: one per component, the other components idle.           *)
(***************************************************************************)
InitEvidence ==
    /\ ev_input \in [labs : EvLabChoices,
                     signals : { <<"p_iron_def">>, <<"p_inflam_iron_seq", "p_iron_def">> },
                     edges : {Pick(EvEdges, idx) : idx \in SUBSET (1..Len(EvEdges))},
                     model : {<<>>, <<150>>, <<-20>>}]
    /\ ev_events = <<>>
    /\ evidence_bundle = None
    /\ ev_pc = "ready"
    /\ GuardIdle /\ MergeIdle /\ ReasonIdle /\ KgIdle /\ PlIdle /\ StreamIdle /\ StateIdle

SpecEvidence == InitEvidence /\ [][BuildEvidence]_vars

InitGuard ==
    /\ reasoner_output \in
          [hypotheses : SeqsUpTo(([name : {"Iron deficiency anemia (possible)", "Hashimoto thyroiditis (likely)"},
                                  evidence : SeqsUpTo([marker : {"Ferritin", "hsCRP"}, status : {"HIGH"}, edge_id : {"e1"}],
                                                      MaxEvidence),
                                  next_tests : {<<>>}]), MaxGuardHyps),
           patient_actions : SeqsUpTo(GuardActions, MaxActions),
           novel_actions : SeqsUpTo(GuardActions, MaxNovelActions)]
    /\ case_card \in [signals : { {"p_iron_def"}, {"p_iron_def", "p_inflam_iron_seq"} }]
    /\ normalized_labs \in { <<[marker |-> "Ferritin"]>>,
                             <<[marker |-> "Ferritin"], [marker |-> "TPO antibodies"]>> }
    /\ guardrail_report = NoReport
    /\ gr_before = reasoner_output
    /\ gr_recheck = NoReport
    /\ gr_pc = "ready"
    /\ EvIdle /\ MergeIdle /\ ReasonIdle /\ KgIdle /\ PlIdle /\ StreamIdle /\ StateIdle

SpecGuard == InitGuard /\ [][GuardrailStep \/ GuardrailRecheck]_vars

InitMerge ==
    /\ mg_prev \in MgPrevObjects
    /\ mg_new \in MgNewObjects
    /\ mg_given = [prev |-> mg_prev, new |-> mg_new]
    /\ mg_result = NoneObj
    /\ mg_pc = "ready"
    /\ GuardIdle /\ EvIdle /\ ReasonIdle /\ KgIdle /\ PlIdle /\ StreamIdle /\ StateIdle

SpecMerge == InitMerge /\ [][Merge]_vars

InitMergeCopy ==
    /\ mg_prev \in MgPrevObjects
    /\ mg_new \in ({x \in MgNewObjects : Falsy(x) \/ Len(ListOf(x, "hypotheses")) <= 1})
    /\ mg_given = [prev |-> mg_prev, new |-> mg_new]
    /\ mg_result = NoneObj
    /\ mg_pc = "ready"
    /\ GuardIdle /\ EvIdle /\ ReasonIdle /\ KgIdle /\ PlIdle /\ StreamIdle /\ StateIdle

SpecMergeCopy == InitMergeCopy /\ [][Merge \/ MutateResult]_vars

InitReason ==
    /\ rs_input \in [labs : EvLabChoices, case_card : [signals : { <<>>, <<"p_iron_def">>,
                                               <<"p_inflam_iron_seq", "p_iron_def">> }],
                     model : ({NoModel, [NoModel EXCEPT !.lite_mode = FALSE]}
                              \cup {[LoadedModel EXCEPT !.ranking_reply = r] : r \in
                                      { <<>>,
                                        << <<>> >>,
                                        << << [id |-> "H1", value |-> 30] >> >>,
                                        << << [id |-> "h2", value |-> 90], [id |-> "H1", value |-> 150] >> >>,
                                        << << [id |-> "H1", value |-> 100], [id |-> "H1", value |-> 0], [id |-> "H4", value |-> 20] >> >> }}
                              \cup {[LoadedModel EXCEPT !.rank_top_n = 1, !.ranking_reply = r] : r \in
                                      { << << [id |-> "H1", value |-> 30] >> >>,
                                        << << [id |-> "h2", value |-> 90], [id |-> "H1", value |-> 150] >> >> }}
                              \cup {[LoadedModel EXCEPT !.ranking_reply = << << [id |-> "H1", value |-> 30] >> >>,
                                                        !.reasoning_reply = "Ferritin is high because of inflammation."]}
                              \cup {[LoadedModel EXCEPT !.use_hypothesis_json = TRUE, !.json_reply = j] : j \in
                                      { <<>>,
                                        << [hypotheses |-> <<>>] >>,
                                        << [hypotheses |-> << [id |-> "H1", name |-> "Iron deficiency anemia (likely)",
                                                               confidence |-> 150] >>] >>,
                                        << [hypotheses |-> << [id |-> "h1", name |-> "Anemia of inflammation (likely)",
                                                               confidence |-> 90,
                                                               next_tests |-> << [test_id |-> "t_stfr"], [note |-> "x"] >>],
                                                              [name |-> "Hypothyroidism (possible)"] >>,
                                            patient_actions |-> << [bucket |-> "tests", task |-> TaskTpo], [bucket |-> "tests", task |-> " "] >>] >> }}
                              \cup {[LoadedModel EXCEPT !.use_action_model = TRUE, !.action_reply = a] :
                                       a \in { <<>>, << << [bucket |-> "tests", task |-> TaskTpo] >> >> }}
                              \cup {[LoadedModel EXCEPT !.novelty_env = e, !.novelty_reply = n] :
                                       e \in {"on", "force"}, n \in
                                      { <<>>,
                                        << [novel_insights |-> <<>>, novel_actions |-> <<>>] >>,
                                        << [novel_insights |-> << [insight |-> "Consider occult blood loss"] >>,
                                            novel_actions |-> <<>>] >>,
                                        << [novel_insights |-> << [insight |-> "Consider occult blood loss"],
                                                                  [str |-> "check B12"] >>,
                                            novel_actions |-> << [task |-> TaskTestDose] >>] >> }}),
                     \* turn: no stored output, or what a lite run of an earlier turn stored
                     turn :
                        [streamed : BOOLEAN, merge_with_current : {FALSE}, prev : {<<>>}]
                        \cup [streamed : BOOLEAN, merge_with_current : {TRUE}, prev :
                              { << _sanitize_reasoner_output(_reason_lite_mode([signals |-> s], RsBundle(l, s))) >> :
                                  <<l, s>> \in { << <<EvLabs[1], EvLabs[3]>>, <<"p_inflam_iron_seq", "p_iron_def">> >>,
                                                 << <<EvLabs[2]>>, <<"p_iron_def">> >> } }]]
    /\ rs_bundle = <<>>
    /\ rs_output = <<>>
    /\ rs_critic_result = <<>>
    /\ rs_pc = "ready"
    /\ GuardIdle /\ EvIdle /\ MergeIdle /\ KgIdle /\ PlIdle /\ StreamIdle /\ StateIdle

SpecReason == InitReason /\ [][Score \/ Reason \/ Critic \/ MergeTurn]_vars

MaxNodesSmall == 4

InitKg ==
    /\ kg_input \in [marker_ids : {Pick(<<"m_anc", "m_ferritin", "m_hscrp", "m_tsh">>, idx) :
                                      idx \in SUBSET (1..4)},
                     hops : 1..3,
                     max_nodes : (1..MaxNodesSmall) \cup {60}]
    /\ kg_subgraph = None
    /\ kg_pc = "ready"
    /\ GuardIdle /\ EvIdle /\ MergeIdle /\ ReasonIdle /\ PlIdle /\ StreamIdle /\ StateIdle

SpecKg == InitKg /\ [][SubgraphFromMarkers]_vars

MaxLabs == 2

\* the cases and the model manager: raw labs (marker, value, ref_low, ref_high)
\* in the standard unit; case["symptom_tokens"], or the keys of the patient
\* context; the model manager as map_symptoms_to_graph sees it
PlCases ==
    [labs : SeqsUpTo(
         { [marker |-> "Ferritin", value |-> 8, ref_low |-> 15, ref_high |-> 150],
           [marker |-> "hsCRP", value |-> 12, ref_low |-> 0, ref_high |-> 3],
           [marker |-> "Thyrotropin", value |-> 2, ref_low |-> 1, ref_high |-> 4],
           [marker |-> "ANC", value |-> 1, ref_low |-> 2, ref_high |-> 7],
           [marker |-> "ANC", value |-> 9, ref_low |-> 2, ref_high |-> 7],
           [marker |-> "Vitamin D", value |-> 20, ref_low |-> 0, ref_high |-> 0] }, MaxLabs),
     symptom_tokens :
         { <<>>, <<"fatigue">>, <<"Fatigue ", "fatigue">>, <<"joint pain", "joint_pain">>,
           <<"joint_pain", "fatigue">>, <<"night sweats", "  ", "">> },
     model :
         { [lite_mode |-> TRUE, model_loaded |-> FALSE, symptom_reply |-> <<>>] }
         \cup [lite_mode : {FALSE}, model_loaded : {TRUE},
               symptom_reply : { <<>>,
                   << [action |-> "KEEP", pattern_id |-> "p_iron_def", relation |-> ""] >>,
                   << [action |-> "change", pattern_id |-> "p_hypothyroid",
                       relation |-> "SUPPORTS"] >>,
                   << [action |-> "change", pattern_id |-> "", relation |-> ""] >>,
                   << [action |-> "do_not_map", pattern_id |-> "", relation |-> ""] >> }]]

\* a run of the pipeline in lite mode
InitPipeline ==
    /\ pl_case \in {c \in PlCases : c.model.lite_mode}
    /\ pl_labs = <<>>
    /\ pl_case_card = <<>>
    /\ pl_subgraph = <<>>
    /\ pl_additions = <<>>
    /\ pl_symptoms = <<>>
    /\ pl_bundle = <<>>
    /\ pl_output = <<>>
    /\ pl_steps = <<>>
    /\ pl_pc = "start"
    /\ GuardIdle /\ EvIdle /\ MergeIdle /\ ReasonIdle /\ KgIdle /\ StreamIdle /\ StateIdle

SpecPipeline ==
    InitPipeline /\ [][LabNormalize \/ SelectContext \/ ExtendSubgraph \/ MapSymptoms
                         \/ EvidenceScore \/ ReasonStage \/ CriticStage]_vars

\* extend_subgraph and map_symptoms_to_graph called with a case card and a
\* subgraph: what select_context returns for a case, a subgraph that already
\* holds a static Symptom node, a case card whose signals are a part of the
\* subgraph's patterns; with and without a loaded model
InitContext ==
    /\ pl_case \in PlCases
    /\ pl_labs = normalize_labs(pl_case.labs)
    /\ \E extra \in { <<>>, << [id |-> "s_fatigue", type |-> "Symptom", label |-> "Fatigue"] >> },
          keep \in { {"p_iron_def"}, {"p_hypothyroid", "p_inflam_iron_seq", "p_iron_def"} } :
          LET anchors == sorted({_marker_to_nid(lab.marker) :
                                    lab \in {l \in Range(pl_labs) : l.status # "NORMAL"}})
              static == subgraph_from_markers(anchors, 2, 60,
                            SelectSeq(anchors, LAMBDA a : \E n \in Range(KgNodes) : n.id = a))
              card == select_context(pl_labs, static)
          IN  /\ pl_subgraph = [static EXCEPT !.nodes = @ \o extra]
              /\ pl_case_card = [card EXCEPT
                                   !.signals = SelectSeq(@, LAMBDA p : p \in keep)]
    /\ pl_additions = <<>>
    /\ pl_symptoms = <<>>
    /\ pl_bundle = <<>>
    /\ pl_output = <<>>
    /\ pl_steps = <<"LAB_NORMALIZE", "CONTEXT_SELECT">>
    /\ pl_pc = "selected"
    /\ GuardIdle /\ EvIdle /\ MergeIdle /\ ReasonIdle /\ KgIdle /\ StreamIdle /\ StateIdle

SpecContext == InitContext /\ [][ExtendSubgraph \/ MapSymptoms]_vars

InitStream ==
    /\ sm_run \in [raise_at : Range(PipelineSteps) \cup {"STORE", "none"},
                   partial_ok : BOOLEAN]
    /\ sm_q = <<>>
    /\ sm_put = <<>>
    /\ sm_yielded = <<>>
    /\ sm_emitted = 0
    /\ sm_pc = "running"
    /\ sm_gen = "reading"
    /\ GuardIdle /\ EvIdle /\ MergeIdle /\ ReasonIdle /\ KgIdle /\ PlIdle /\ StateIdle

SpecStream ==
    InitStream /\ [][Emit \/ RunnerFinal \/ RunnerError \/ RunnerFinally \/ Gen]_vars

\* the worker thread and the consumer are each scheduled as long as they can
\* take a step, and every call of the run returns or raises
FairStream ==
    /\ SpecStream
    /\ WF_vars(Emit \/ RunnerFinal \/ RunnerError \/ RunnerFinally)
    /\ WF_vars(Gen)

\* a process started without a stored output file, and no request yet
InitState ==
    /\ current_case = <<>>
    /\ current_output = <<>>
    /\ current_output_json = <<>>
    /\ requests = [w \in 1..MaxInFlight |-> NoRequest]
    /\ served = 0
    /\ GuardIdle /\ EvIdle /\ MergeIdle /\ ReasonIdle /\ KgIdle /\ PlIdle /\ StreamIdle

SpecState ==
    InitState /\ [][\/ \E w \in 1..MaxInFlight :
                          \/ Begin(w) \/ PipelineRaises(w) \/ MergeWithStored(w)
                          \/ WriteCase(w) \/ WriteOutput(w) \/ WriteFile(w)
                    \/ clear_current_case
                    \/ Restart]_vars

(***************************************************************************)
(* Claims about the guardrail step (checked under SpecGuard).              *)
(***************************************************************************)
Count(x, lst) == Cardinality({k \in 1..Len(lst) : lst[k] = x})

InflammationActive == "p_inflam_iron_seq" \in case_card.signals

\* an action that violates none of GR_001, GR_003, GR_004
CleanAction(a) == ActionFindings(a, 0, InflammationActive, "patient_actions") = <<>>

HasDosingToken(a) == \E word \in {"mg", "dose", "supplement"} : In(word, Lower(a.task))

ActionScopes == {"patient_actions", "novel_actions"}

\* C1: after check_guardrails and the application of its patches by the
\* guardrail step, every action of patient_actions and novel_actions that
\* violated none of the action rules is still present (as often as before).
C1_CleanActionsKept ==
    gr_pc = "patched" =>
        \A scope \in ActionScopes : \A a \in Range(gr_before[scope]) :
            CleanAction(a) => Count(a, reasoner_output[scope]) >= Count(a, gr_before[scope])

\* C2: after the guardrail step no action of patient_actions or novel_actions
\* has a task with a dosing token, wherever it stood in its list.
C2_NoDosingActionLeft ==
    gr_pc = "patched" =>
        \A scope \in ActionScopes : \A a \in Range(reasoner_output[scope]) :
            ~HasDosingToken(a)

RuleIds(report) == {report.failed_rules[k].id : k \in 1..Len(report.failed_rules)}

\* C3: when check_guardrails returned FAIL and its patches were applied as the
\* pipeline applies them, a second check_guardrails on the patched output
\* reports none of the rules that fired the first time.
C3_NoRetrigger ==
    (gr_pc = "rechecked" /\ guardrail_report.status = "FAIL") =>
        RuleIds(guardrail_report) \cap RuleIds(gr_recheck) = {}

LabMarkers == {normalized_labs[k].marker : k \in 1..Len(normalized_labs)}

\* C4: after the guardrail step every item left in the evidence list of every
\* hypothesis cites a marker that occurs in the normalized input labs.
C4_EvidenceCitesInputLabs ==
    gr_pc = "patched" =>
        \A h \in 1..Len(reasoner_output.hypotheses) :
            \A e \in Range(reasoner_output.hypotheses[h].evidence) :
                e.marker \in LabMarkers

(***************************************************************************)
(* Claims about build_evidence (checked under SpecEvidence).               *)
(***************************************************************************)
ScoresInUnitInterval(scores) == \A p \in DOMAIN scores : 0 <= scores[p] /\ scores[p] <= 100

\* C5: every candidate score build_evidence exposes, in the candidate_scores of
\* the returned bundle and in each SCORE_UPDATE event, lies in [0,1].
C5_ExposedScoresInUnitInterval ==
    ev_pc = "done" =>
        /\ ScoresInUnitInterval(evidence_bundle.candidate_scores)
        /\ \A k \in 1..Len(ev_events) : ScoresInUnitInterval(ev_events[k])

\* the part of C5 the code does keep: the returned candidate_scores are clamped
FinalScoresClamped ==
    ev_pc = "done" => ScoresInUnitInterval(evidence_bundle.candidate_scores)


(***************************************************************************)
(* Claims about the confidences of a turn (checked under SpecReason).      *)
(***************************************************************************)
ConfidencesInUnitInterval(out) ==
    \A k \in 1..Len(Get(out, "hypotheses", <<>>)) :
        /\ 0 <= Get(out.hypotheses[k], "confidence", 0)
        /\ Get(out.hypotheses[k], "confidence", 0) <= 100

\* C6: every hypothesis confidence of the reasoner output lies in [0,1] after
\* each stage that can set it: the REASON step (stage-1 scoring, re-ranking,
\* the hypothesis-generation JSON path), the critic's ops and the merge.
C6_ConfidencesInUnitInterval ==
    rs_pc \in {"reasoned", "criticized", "merged"} => ConfidencesInUnitInterval(rs_output)

\* the part of C6 the code does keep: off the JSON path the confidences of the
\* REASON step are in range
ConfidencesInRangeOffJsonPath ==
    (rs_pc = "reasoned" /\ ~JsonUsed(rs_input.model)) => ConfidencesInUnitInterval(rs_output)

(***************************************************************************)
(* Claims about _merge_reasoner_output (checked under SpecMerge, and       *)
(* under SpecMergeCopy where a later change to the result matters).  They  *)
(* are stated on the plain values of the arguments as given and of the     *)
(* result, in the words of the contract, not with the operators of the     *)
(* merge.                                                                  *)
(***************************************************************************)
PrevGiven == Plain(mg_given.prev)
NewGiven == Plain(mg_given.new)
Merged == Plain(mg_result)

HypsOf(out) == Get(out, "hypotheses", <<>>)

\* the call has returned, and prev was neither None nor {}
MergedOverPrev ==
    /\ mg_pc \in {"merged", "mutated"}
    /\ mg_given.prev.t = "dict"
    /\ DOMAIN mg_given.prev.v # {}

\* new is an output with hypotheses_valid true or, when the flag is absent,
\* with at least one hypothesis
NewIsValid ==
    /\ mg_given.new.t = "dict"
    /\ IF "hypotheses_valid" \in DOMAIN NewGiven THEN NewGiven.hypotheses_valid
       ELSE HypsOf(NewGiven) # <<>>

\* the key of a hypothesis: its id, else its normalized name
KeyOf(h) == IF h.id # "" THEN h.id ELSE _normalize_hypothesis_name(h.name)

SignatureSet(items) == {<<items[k].marker, items[k].status, items[k].edge_id>> : k \in 1..Len(items)}

\* the differences that count: confidence by 0.05 or more, the signature sets
\* of evidence or counter-evidence, the next_tests lists
Differs(p, h) ==
    \/ h.confidence - p.confidence >= 5
    \/ p.confidence - h.confidence >= 5
    \/ SignatureSet(p.evidence) # SignatureSet(h.evidence)
    \/ SignatureSet(p.counter_evidence) # SignatureSet(h.counter_evidence)
    \/ p.next_tests # h.next_tests

\* the prior hypotheses a new hypothesis h matches
PriorMatches(h) ==
    {i \in 1..Len(HypsOf(PrevGiven)) :
        KeyOf(h) # "" /\ KeyOf(HypsOf(PrevGiven)[i]) = KeyOf(h)}

\* the new hypotheses a prior hypothesis p matches
NewMatches(p) ==
    {j \in 1..Len(HypsOf(NewGiven)) :
        KeyOf(p) # "" /\ KeyOf(HypsOf(NewGiven)[j]) = KeyOf(p)}

\* the hypothesis h as the merge marks it
Marked(h, flag) == WithKey(h, "merge_updated", flag)

\* C7: with a non-empty prev and a new output that is None, empty or invalid,
\* the merge returns a value equal to prev that shares no object with prev: a
\* later change made through the result leaves prev as it was given.
C7_InvalidNewReturnsUnsharedCopy ==
    (MergedOverPrev /\ ~NewIsValid) =>
        /\ mg_pc = "merged" => Merged = PrevGiven
        /\ Oids(mg_result) \cap Oids(mg_prev) = {}
        /\ mg_prev = mg_given.prev

\* C7's case has happened: new was flagged invalid, the merge returned, and the
\* caller has changed the result, which now differs from prev
C7_Witness ==
    /\ MergedOverPrev
    /\ mg_pc = "mutated"
    /\ mg_given.new.t = "dict"
    /\ "hypotheses_valid" \in DOMAIN NewGiven
    /\ ~NewGiven.hypotheses_valid
    /\ HypsOf(NewGiven) # <<>>
    /\ Merged # PrevGiven

\* no hypothesis of new is new or differs from its prior match
NothingChanged ==
    \A j \in 1..Len(HypsOf(NewGiven)) :
        /\ PriorMatches(HypsOf(NewGiven)[j]) # {}
        /\ \A i \in PriorMatches(HypsOf(NewGiven)[j]) :
              ~Differs(HypsOf(PrevGiven)[i], HypsOf(NewGiven)[j])

\* C8: with a valid new output in which no hypothesis is new or differs from
\* its prior match, every merged hypothesis has merge_updated = false and every
\* side field prev has keeps prev's value.
C8_NothingChangedKeepsPrior ==
    (MergedOverPrev /\ mg_pc = "merged" /\ NewIsValid /\ NothingChanged) =>
        /\ \A k \in 1..Len(HypsOf(Merged)) :
              /\ "merge_updated" \in DOMAIN HypsOf(Merged)[k]
              /\ HypsOf(Merged)[k].merge_updated = FALSE
        /\ \A f \in Range(SideFields) :
              f \in DOMAIN PrevGiven => (f \in DOMAIN Merged /\ Merged[f] = PrevGiven[f])

\* C8's case has happened: a new hypothesis drifted by less than 0.05 from its
\* match, new brought other side fields than prev has, and the merge returned
C8_Witness ==
    /\ MergedOverPrev /\ mg_pc = "merged" /\ NewIsValid /\ NothingChanged
    /\ \E j \in 1..Len(HypsOf(NewGiven)) :
          \E i \in PriorMatches(HypsOf(NewGiven)[j]) :
              HypsOf(NewGiven)[j].confidence # HypsOf(PrevGiven)[i].confidence
    /\ "red_flags" \in DOMAIN PrevGiven
    /\ PrevGiven.red_flags # NewGiven.red_flags
    /\ Len(HypsOf(Merged)) > Len(HypsOf(NewGiven))

C10_UnmatchedKept ==
    (MergedOverPrev /\ mg_pc = "merged" /\ NewIsValid) =>
        /\ \A i \in 1..Len(HypsOf(PrevGiven)) :
              NewMatches(HypsOf(PrevGiven)[i]) = {} =>
                  \E k \in 1..Len(HypsOf(Merged)) :
                      HypsOf(Merged)[k] = Marked(HypsOf(PrevGiven)[i], FALSE)
        /\ \A j \in 1..Len(HypsOf(NewGiven)) :
              PriorMatches(HypsOf(NewGiven)[j]) = {} =>
                  \E k \in 1..Len(HypsOf(Merged)) :
                      HypsOf(Merged)[k] = Marked(HypsOf(NewGiven)[j], TRUE)

\* C10's case has happened: the merge returned with a prior hypothesis no new
\* one matches (it had been marked updated by an earlier merge) and a new
\* hypothesis no prior one matches, next to a matched pair
C10_Witness ==
    /\ MergedOverPrev /\ mg_pc = "merged" /\ NewIsValid
    /\ \E i \in 1..Len(HypsOf(PrevGiven)) :
          /\ NewMatches(HypsOf(PrevGiven)[i]) = {}
          /\ "merge_updated" \in DOMAIN HypsOf(PrevGiven)[i]
    /\ \E j \in 1..Len(HypsOf(NewGiven)) : PriorMatches(HypsOf(NewGiven)[j]) = {}
    /\ \E j \in 1..Len(HypsOf(NewGiven)) : PriorMatches(HypsOf(NewGiven)[j]) # {}

(***************************************************************************)
(* Claims about reason() (checked under SpecReason).  ReasonOutput is what *)
(* reason() returns for the inputs of the turn; the REASON step has run.   *)
(***************************************************************************)
ReasonOutput == reason(rs_input.case_card, rs_bundle, rs_input.model)

\* the hypotheses of stage 1 for the inputs of the turn
Stage1Hypotheses == _reason_lite_mode(rs_input.case_card, rs_bundle).hypotheses

\* C12: in lite mode reason() returns, for every evidence bundle, the one with
\* no candidate score included, an output that holds each of the fields
\* hypotheses, patient_actions, red_flags, hypotheses_valid, provisional,
\* novel_insights, novel_actions and provenance.
C12_LiteOutputHasAllFields ==
    (rs_pc = "reasoned" /\ rs_input.model.lite_mode) =>
        {"hypotheses", "patient_actions", "red_flags", "hypotheses_valid", "provisional",
         "novel_insights", "novel_actions", "provenance"} \subseteq DOMAIN ReasonOutput

\* the part of C12 the code does keep: with at least one candidate score the
\* lite output holds every field
LiteOutputCompleteWithScores ==
    (rs_pc = "reasoned" /\ rs_input.model.lite_mode /\ rs_input.case_card.signals # <<>>) =>
        {"hypotheses", "patient_actions", "red_flags", "hypotheses_valid", "provisional",
         "novel_insights", "novel_actions", "provenance"} \subseteq DOMAIN ReasonOutput

\* re-ranking is attempted: a loaded model off the JSON path, and stage 1 gave
\* hypotheses
RankingAttempted ==
    /\ rs_pc = "reasoned"
    /\ ~rs_input.model.lite_mode /\ rs_input.model.model_loaded
    /\ ~JsonUsed(rs_input.model)
    /\ Stage1Hypotheses # <<>>

\* the Hn=value pairs of the reply that are in [0,1] and name the id of h
PairsFor(h) ==
    IF rs_input.model.ranking_reply = <<>> THEN {}
    ELSE {m \in Range(rs_input.model.ranking_reply[1]) :
             Upper(m.id) = Upper(h.id) /\ 0 <= m.value /\ m.value <= 100}

\* C13: when re-ranking is attempted, reason() returns the stage-1 hypotheses,
\* each with its stage-1 confidence or with a value in [0,1] that the reply
\* gives for its id; when the call raises or the reply holds no such pair, each
\* keeps its stage-1 confidence.
C13_OnlyWellFormedRanksOverwrite ==
    RankingAttempted =>
        /\ Len(ReasonOutput.hypotheses) = Len(Stage1Hypotheses)
        /\ \A i \in 1..Len(Stage1Hypotheses) :
              /\ [ReasonOutput.hypotheses[i] EXCEPT !.confidence = 0, !.reasoning = ""]
                    = [Stage1Hypotheses[i] EXCEPT !.confidence = 0, !.reasoning = ""]
              /\ \/ ReasonOutput.hypotheses[i].confidence = Stage1Hypotheses[i].confidence
                 \/ \E m \in PairsFor(Stage1Hypotheses[i]) :
                       ReasonOutput.hypotheses[i].confidence = m.value
              /\ PairsFor(Stage1Hypotheses[i]) = {} =>
                    ReasonOutput.hypotheses[i].confidence = Stage1Hypotheses[i].confidence

\* C13's case has happened: the reply held a pair out of range for one
\* hypothesis, which kept its confidence, and a pair in range for another,
\* whose confidence changed
C13_Witness ==
    /\ RankingAttempted
    /\ rs_input.model.ranking_reply # <<>>
    /\ \E i \in 1..Len(Stage1Hypotheses) :
          /\ PairsFor(Stage1Hypotheses[i]) = {}
          /\ \E m \in Range(rs_input.model.ranking_reply[1]) :
                Upper(m.id) = Upper(Stage1Hypotheses[i].id) /\ m.value > 100
          /\ ReasonOutput.hypotheses[i].confidence = Stage1Hypotheses[i].confidence
    /\ \E i \in 1..Len(Stage1Hypotheses) :
          ReasonOutput.hypotheses[i].confidence # Stage1Hypotheses[i].confidence

(***************************************************************************)
(* Claims about the direction of an edge (checked under SpecEvidence).     *)
(***************************************************************************)
\* the (lab, edge) pairs of the run that reach a pattern of the signals, in the
\* order of the loops: the k-th one is followed by the k-th SCORE_UPDATE
ScoredPairs ==
    SelectSeq(EvidencePairs(ev_input.labs, ev_input.edges),
              LAMBDA pr : EdgePattern(pr.edge, ev_input.signals) # None)

\* a directional edge whose direction does not match the status of the marker
DirectionMismatch(pr) ==
    \/ pr.edge.relation = "INCREASES" /\ pr.lab.status = "LOW"
    \/ pr.edge.relation = "DECREASES" /\ pr.lab.status = "HIGH"

\* C19: in build_evidence an INCREASES edge met with a LOW marker, or a
\* DECREASES edge met with a HIGH marker, changes no candidate score: the
\* scores after that edge are the scores before it.
C19_MismatchedDirectionNoUpdate ==
    ev_pc = "done" =>
        \A k \in 1..Len(ev_events) :
            DirectionMismatch(ScoredPairs[k]) =>
                ev_events[k] = IF k = 1 THEN [p \in Range(ev_input.signals) |-> 50]
                               ELSE ev_events[k - 1]

(***************************************************************************)
(* Claims about the CRITIC step (checked under SpecReason).                *)
(***************************************************************************)
\* h is hypothesis g, but for its confidence
SameButConfidence(h, g) ==
    [h EXCEPT !.confidence = 0] = [g EXCEPT !.confidence = 0]

\* C20: _apply_critic_ops only prunes or down-weights: every hypothesis it
\* leaves was there before, with a confidence at least as high, and it leaves
\* no more patient actions or novel actions than there were.
C20_CriticOnlyPrunes ==
    [][(rs_pc = "reasoned" /\ rs_pc' = "criticized") =>
          /\ \A k \in 1..Len(Get(rs_output', "hypotheses", <<>>)) :
                \E j \in 1..Len(Get(rs_output, "hypotheses", <<>>)) :
                    /\ SameButConfidence(rs_output'.hypotheses[k], rs_output.hypotheses[j])
                    /\ rs_output'.hypotheses[k].confidence <= rs_output.hypotheses[j].confidence
          /\ Len(Get(rs_output', "hypotheses", <<>>)) <= Len(Get(rs_output, "hypotheses", <<>>))
          /\ \A f \in {"patient_actions", "novel_actions"} :
                /\ Len(Get(rs_output', f, <<>>)) <= Len(Get(rs_output, f, <<>>))
                /\ Range(Get(rs_output', f, <<>>)) \subseteq Range(Get(rs_output, f, <<>>))]_vars

\* the part of C20 the code does keep: the critic adds no hypothesis and no
\* action
CriticAddsNothing ==
    [][(rs_pc = "reasoned" /\ rs_pc' = "criticized") =>
          /\ \A k \in 1..Len(Get(rs_output', "hypotheses", <<>>)) :
                \E j \in 1..Len(Get(rs_output, "hypotheses", <<>>)) :
                    SameButConfidence(rs_output'.hypotheses[k], rs_output.hypotheses[j])
          /\ Len(Get(rs_output', "hypotheses", <<>>)) <= Len(Get(rs_output, "hypotheses", <<>>))
          /\ \A f \in {"patient_actions", "novel_actions"} :
                /\ Len(Get(rs_output', f, <<>>)) <= Len(Get(rs_output, f, <<>>))
                /\ Range(Get(rs_output', f, <<>>)) \subseteq Range(Get(rs_output, f, <<>>))]_vars


(***************************************************************************)
(* Claims about the knowledge-graph store (checked under SpecKg).          *)
(***************************************************************************)
\* the static nodes within at most k edges, in either direction, of a node of S
RECURSIVE WithinHops(_, _)
WithinHops(S, k) ==
    IF k = 0 THEN S
    ELSE WithinHops(S \cup UNION {{e.from, e.to} : e \in UNION {adj(n) : n \in S}}, k - 1)

\* the anchors of the call that the store recognizes
KgRecognized == Range(kg_input.marker_ids) \cap {KgNodes[i].id : i \in 1..Len(KgNodes)}

KgReturnedIds == {kg_subgraph.nodes[i].id : i \in 1..Len(kg_subgraph.nodes)}

\* C17: when the node cap is not reached, subgraph_from_markers(anchor_ids, hops)
\* returns exactly the recognized anchors and every static node within at most
\* hops edges of one of them, either direction.
C17_SubgraphIsHopsNeighbourhood ==
    (kg_pc = "done"
       /\ Cardinality(WithinHops(KgRecognized, kg_input.hops)) <= kg_input.max_nodes)
    => KgReturnedIds = WithinHops(KgRecognized, kg_input.hops)

\* what does hold: the returned nodes are the anchors, their direct neighbours
\* and the nodes within hops - 1 edges
SubgraphIsShortNeighbourhood ==
    (kg_pc = "done"
       /\ Cardinality(WithinHops(KgRecognized, kg_input.hops)) <= kg_input.max_nodes)
    => KgReturnedIds = WithinHops(KgRecognized, Max(1, kg_input.hops - 1))

\* the tier of a returned node: 1 anchor, 2 endpoint of an anchor's edge, 3 further
KgTier(nid) ==
    IF nid \in KgRecognized THEN 1
    ELSE IF nid \in WithinHops(KgRecognized, 1) THEN 2 ELSE 3

\* C18: subgraph_from_markers returns at most max_nodes nodes and truncates by
\* tier (anchors, then anchor-incident nodes, then further nodes): a node is
\* returned only when every node of an earlier tier is; and when the anchors
\* and their direct neighbours fit in max_nodes, every static edge incident to
\* a recognized anchor is returned.
C18_CapAndTiers ==
    kg_pc = "done" =>
        /\ Len(kg_subgraph.nodes) <= kg_input.max_nodes
        /\ \A i, j \in 1..Len(kg_subgraph.nodes) :
              i < j => KgTier(kg_subgraph.nodes[i].id) <= KgTier(kg_subgraph.nodes[j].id)
        /\ \A nid \in KgReturnedIds :
              /\ KgTier(nid) >= 2 => KgRecognized \subseteq KgReturnedIds
              /\ KgTier(nid) = 3 => WithinHops(KgRecognized, 1) \subseteq KgReturnedIds
        /\ Cardinality(WithinHops(KgRecognized, 1)) <= kg_input.max_nodes
              => \A e \in UNION {adj(n) : n \in KgRecognized} : e \in Range(kg_subgraph.edges)

\* a call whose cap cuts inside the second tier, and one whose cap keeps the
\* first two tiers and cuts the third
C18_Witness ==
    /\ kg_pc = "done"
    /\ Len(kg_subgraph.nodes) = kg_input.max_nodes
    /\ KgRecognized \subseteq KgReturnedIds
    /\ \E nid \in KgReturnedIds : KgTier(nid) = 2
    /\ \E nid \in WithinHops(KgRecognized, kg_input.hops - 1) \ KgReturnedIds : KgTier(nid) >= 2


(***************************************************************************)
(* Claims about the pipeline and the dynamic graph (checked under          *)
(* SpecPipeline and SpecContext).                                          *)
(***************************************************************************)
\* C11: in lite mode _run_pipeline never raises for a well-formed case: it runs
\* LAB_NORMALIZE, CONTEXT_SELECT, EVIDENCE_SCORE, REASON, CRITIC and GUARDRAILS
\* in order and returns a result.
C11_LitePipelineNeverRaises == pl_pc # "raised"

\* what does hold: the run gets through the four steps before CRITIC, in order,
\* and no further
PipelineStopsAtCritic ==
    /\ \E k \in 0..4 : pl_steps = SubSeq(<<"LAB_NORMALIZE", "CONTEXT_SELECT",
                                            "EVIDENCE_SCORE", "REASON">>, 1, k)
    /\ pl_pc # "criticized"

\* the synthesized edges of the subgraph: those of extend_subgraph and those of
\* map_symptoms_to_graph
SynthesizedEdges ==
    IF pl_pc \in {"extended", "mapped"}
    THEN {e \in Range(pl_subgraph.edges) :
             Get(e, "source_label", "") \in {"dynamic", "symptom_mapper"}}
    ELSE {}

\* C14: every edge extend_subgraph or map_symptoms_to_graph synthesizes, from a
\* rule or from the model's answer, ends at a pattern id that is a signal of the
\* case card and a node of the subgraph.
C14_SynthesizedEdgesEndAtActivePatterns ==
    /\ \A e \in SynthesizedEdges :
          /\ e.to \in Range(pl_case_card.signals)
          /\ \E n \in Range(pl_subgraph.nodes) : n.id = e.to /\ n.type = "Pattern"
    /\ pl_pc \in {"extended", "mapped"} =>
          \A e \in Range(pl_additions.edges) :
              /\ e.to \in Range(pl_case_card.signals)
              /\ \E n \in Range(pl_subgraph.nodes) : n.id = e.to

\* a run with a loaded model where a marker rule and the model's answer each
\* gave an edge
C14_Witness ==
    /\ pl_pc = "mapped"
    /\ ~pl_case.model.lite_mode
    /\ \E e \in SynthesizedEdges : e.source_label = "dynamic"
    /\ \E e \in SynthesizedEdges : e.source_label = "symptom_mapper"

\* C15: for every abnormal-marker anchor id absent from the subgraph,
\* extend_subgraph adds exactly one node with that id, of type Marker, with
\* dynamic = true and the label of the marker at the same position of
\* abnormal_markers; it adds no node for an anchor already in the subgraph.
C15_OneDynamicNodePerAbsentAnchor ==
    [][(pl_pc = "selected" /\ pl_pc' = "extended") =>
          \A i \in 1..Len(pl_case_card.abnormal_marker_node_ids) :
              LET nid == pl_case_card.abnormal_marker_node_ids[i]
                  before == {k \in 1..Len(pl_subgraph.nodes) : pl_subgraph.nodes[k].id = nid}
                  after == {k \in 1..Len(pl_subgraph'.nodes) : pl_subgraph'.nodes[k].id = nid}
              IN  IF before = {}
                  THEN /\ Cardinality(after) = 1
                       /\ \A k \in after :
                             /\ pl_subgraph'.nodes[k].type = "Marker"
                             /\ Get(pl_subgraph'.nodes[k], "dynamic", FALSE)
                             /\ pl_subgraph'.nodes[k].label = pl_case_card.abnormal_markers[i]
                  ELSE after = before]_vars

\* what does hold: the same, for a case card that names no absent anchor twice
OneDynamicNodePerDistinctAbsentAnchor ==
    [][(pl_pc = "selected" /\ pl_pc' = "extended"
          /\ \A i, j \in 1..Len(pl_case_card.abnormal_marker_node_ids) :
                pl_case_card.abnormal_marker_node_ids[i] = pl_case_card.abnormal_marker_node_ids[j]
                  => i = j) =>
          \A i \in 1..Len(pl_case_card.abnormal_marker_node_ids) :
              LET nid == pl_case_card.abnormal_marker_node_ids[i]
                  before == {k \in 1..Len(pl_subgraph.nodes) : pl_subgraph.nodes[k].id = nid}
                  after == {k \in 1..Len(pl_subgraph'.nodes) : pl_subgraph'.nodes[k].id = nid}
              IN  IF before = {}
                  THEN /\ Cardinality(after) = 1
                       /\ \A k \in after :
                             /\ pl_subgraph'.nodes[k].type = "Marker"
                             /\ Get(pl_subgraph'.nodes[k], "dynamic", FALSE)
                             /\ pl_subgraph'.nodes[k].label = pl_case_card.abnormal_markers[i]
                  ELSE after = before]_vars

\* C16: map_symptoms_to_graph accounts for every non-blank input token: the
\* token has a Symptom node with an edge to a pattern among the returned nodes
\* and edges, or it is in the returned unmappable list.
C16_EveryTokenAccountedFor ==
    pl_pc = "mapped" =>
        \A k \in 1..Len(pl_case.symptom_tokens) :
            LET token == pl_case.symptom_tokens[k]
            IN  strip(token) # "" =>
                  \/ \E n \in Range(pl_symptoms.nodes) :
                        /\ n.id = _symptom_to_node_id(token) /\ n.type = "Symptom"
                        /\ \E e \in Range(pl_symptoms.edges) : e.from = n.id
                  \/ strip(token) \in Range(pl_symptoms.unmappable)

\* what does hold: the same for the tokens whose node id the subgraph did not
\* hold when the call was made
EveryNewTokenAccountedFor ==
    pl_pc = "mapped" =>
        \A k \in 1..Len(pl_case.symptom_tokens) :
            LET token == pl_case.symptom_tokens[k]
            IN  (strip(token) # ""
                   /\ \A n \in Range(pl_subgraph.nodes) :
                         n.id = _symptom_to_node_id(token) => Get(n, "dynamic", FALSE)) =>
                  \/ \E n \in Range(pl_symptoms.nodes) :
                        /\ n.id = _symptom_to_node_id(token) /\ n.type = "Symptom"
                        /\ \E e \in Range(pl_symptoms.edges) : e.from = n.id
                  \/ strip(token) \in Range(pl_symptoms.unmappable)

(***************************************************************************)
(* Claims about the novelty block of reason() (checked under SpecReason).  *)
(***************************************************************************)
\* C23: whenever reason() returns a non-empty novel_insights or novel_actions
\* list, every item of both lists carries outside_kg = true and
\* provenance.kg_grounded is false, whatever the novelty collaborator returned.
C23_NovelItemsTaggedOutsideKg ==
    rs_pc = "reasoned" =>
        LET insights == Get(ReasonOutput, "novel_insights", <<>>)
            actions == Get(ReasonOutput, "novel_actions", <<>>)
        IN  (insights # <<>> \/ actions # <<>>) =>
                /\ \A item \in Range(insights) \cup Range(actions) :
                      Get(item, "outside_kg", FALSE) = TRUE
                /\ ReasonOutput.provenance.kg_grounded = FALSE

(***************************************************************************)
(* Claims about the order and the reach of the re-ranking (checked under   *)
(* SpecReason).                                                            *)
(***************************************************************************)
\* C25: model re-ranking changes the confidence of no hypothesis outside the
\* top HYBRID_RANK_TOP_N hypotheses that were shown to the model, whatever
\* hypothesis ids the reply mentions.
C25_RankingReachesOnlyTopN ==
    RankingAttempted =>
        \A i \in 1..Len(Stage1Hypotheses) :
            i > rs_input.model.rank_top_n =>
                ReasonOutput.hypotheses[i].confidence = Stage1Hypotheses[i].confidence

\* hs is ordered by non-increasing confidence
NonIncreasing(hs) ==
    \A i \in 1..Len(hs) - 1 : hs[i].confidence >= hs[i + 1].confidence

\* C26: the hypotheses of the reasoner output are ordered by non-increasing
\* confidence after stage 1, after model re-ranking has overwritten
\* confidences (what reason() returns), and after the critic step, whether or
\* not the critic produced any op.
C26_HypothesesOrderedByConfidence ==
    /\ rs_pc \in {"scored", "reasoned"} => NonIncreasing(Stage1Hypotheses)
    /\ rs_pc = "reasoned" => NonIncreasing(ReasonOutput.hypotheses)
    /\ rs_pc = "criticized" => NonIncreasing(Get(rs_output, "hypotheses", <<>>))

\* the part of C26 the code does keep: stage 1 orders the hypotheses, and so
\* does the critic step when the critic produced an op
OrderedAfterStage1AndCriticOps ==
    /\ rs_pc \in {"scored", "reasoned"} => NonIncreasing(Stage1Hypotheses)
    /\ (rs_pc = "criticized" /\ rs_critic_result # <<>>) =>
          NonIncreasing(Get(rs_output, "hypotheses", <<>>))

(***************************************************************************)
(* Claims about the flags of a reasoner output (checked under SpecReason). *)
(***************************************************************************)
\* hypotheses_valid is there and tells whether there is a hypothesis
ValidFlagAgrees(out) ==
    /\ "hypotheses_valid" \in DOMAIN out
    /\ out.hypotheses_valid = (Get(out, "hypotheses", <<>>) # <<>>)

\* C27: in every reasoner output handed from one stage to the next (returned
\* by reason(), after the critic ops, as given to _merge_reasoner_output),
\* hypotheses_valid is present and is true exactly when the list of
\* hypotheses is non-empty.
C27_ValidFlagMatchesHypotheses ==
    /\ rs_pc = "reasoned" => ValidFlagAgrees(ReasonOutput)
    /\ rs_pc = "criticized" => ValidFlagAgrees(rs_output)

\* the part of C27 the code does keep: what reason() returns when there is a
\* candidate score
ValidFlagAgreesWithScores ==
    (rs_pc = "reasoned" /\ rs_input.case_card.signals # <<>>) => ValidFlagAgrees(ReasonOutput)

ValidOrPlainRunNotProvisional ==
    (/\ rs_pc \in {"reasoned", "criticized", "merged"}
     /\ (~rs_input.turn.streamed \/ Get(ReasonOutput, "hypotheses_valid", FALSE))) =>
        Get(rs_output, "provisional", FALSE) = FALSE

(***************************************************************************)
(* Claims about the merge across turns (checked under SpecReason: the turn *)
(* runs in lite mode, and the stored output is the stage-1 output of an    *)
(* earlier turn).                                                          *)
(***************************************************************************)
\* the condition a stage-1 hypothesis is about: its name without the qualifier
ConditionOf(h) ==
    CHOOSE c \in {PATTERN_TO_CONDITION[p] : p \in DOMAIN PATTERN_TO_CONDITION} :
        \E q \in {"likely", "possible", "unlikely but considered"} :
            h.name = HypothesisName(c, q)

\* the turn merges a valid stage-1 output with the stage-1 output stored by an
\* earlier turn
LiteTurnsMerged ==
    /\ rs_pc = "criticized" /\ rs_pc' = "merged"
    /\ rs_input.model.lite_mode
    /\ rs_input.turn.merge_with_current /\ rs_input.turn.prev # <<>>
    /\ Get(rs_output, "hypotheses_valid", FALSE)

\* C29: when the stage-1 outputs of two turns are merged, a prior hypothesis
\* is kept unless a new hypothesis about the same condition is paired with it:
\* it is never replaced by a new hypothesis of a different pattern that
\* carries the same rank-based id.
C29_MergePairsSameCondition ==
    [][LiteTurnsMerged =>
          \A p \in Range(rs_input.turn.prev[1].hypotheses) :
              \/ \E k \in 1..Len(rs_output'.hypotheses) :
                    rs_output'.hypotheses[k] = Marked(p, FALSE)
              \/ \E n \in Range(rs_output.hypotheses) :
                    /\ KeyOf(n) = KeyOf(p)
                    /\ ConditionOf(n) = ConditionOf(p)]_vars

\* the part of C29 the code does keep: a prior hypothesis is kept unless a new
\* hypothesis carries its id
PriorKeptUnlessIdTaken ==
    [][LiteTurnsMerged =>
          \A p \in Range(rs_input.turn.prev[1].hypotheses) :
              \/ \E k \in 1..Len(rs_output'.hypotheses) :
                    rs_output'.hypotheses[k] = Marked(p, FALSE)
              \/ \E n \in Range(rs_output.hypotheses) :
                    KeyOf(n) = KeyOf(p)]_vars

(***************************************************************************)
(* Claims about a streamed run (checked under SpecStream, and under        *)
(* FairStream where termination is claimed).                               *)
(***************************************************************************)
\* the positions of s that hold a terminal message
Terminals(s) == {k \in 1..Len(s) : s[k].type \in {"final", "error"}}

\* C21: the consumer receives the messages in the order the worker produced
\* them; exactly one terminal message is delivered, 'final' when the run
\* succeeded and 'error' when it raised; it is the last message of the
\* stream, and a 'partial' message, when there is one, precedes it.
C21_OrderedStreamOneTerminal ==
    /\ Len(sm_yielded) <= Len(sm_put)
    /\ sm_yielded = SubSeq(sm_put, 1, Len(sm_yielded))
    /\ \A k \in Terminals(sm_yielded) :
          /\ k = Len(sm_yielded)
          /\ sm_yielded[k].type = IF sm_run.raise_at = "none" THEN "final" ELSE "error"
    /\ sm_gen = "stopped" =>
          /\ Cardinality(Terminals(sm_yielded)) = 1
          /\ Append(sm_yielded, EndOfStream) = sm_put
          /\ \A k \in 1..Len(sm_yielded) :
                sm_yielded[k].type = "partial" => k < Len(sm_yielded)

\* C21's case has happened: a stream was read to its end, with events, the
\* 'partial' message and then 'final' as its last message
C21_Witness ==
    /\ sm_gen = "stopped"
    /\ sm_yielded[Len(sm_yielded)].type = "final"
    /\ \E k \in 1..Len(sm_yielded) : sm_yielded[k].type = "partial"
    /\ \E k \in 1..Len(sm_yielded) : sm_yielded[k].type = "events"

\* C22: every streamed run terminates: whether the run succeeds or raises,
\* the worker eventually puts the end-of-stream item, once and after all its
\* other messages, and the consumer stops on reading it.
C22_StreamTerminates ==
    /\ <>(sm_pc = "done" /\ sm_gen = "stopped" /\ sm_q = <<>>)
    /\ [](\A k \in 1..Len(sm_put) : sm_put[k] = EndOfStream => (k = Len(sm_put) /\ sm_pc = "done"))
    /\ [](sm_gen = "stopped" => sm_put # <<>> /\ sm_put[Len(sm_put)] = EndOfStream)

\* C22's case has happened: a run that raised before its first message was
\* still closed, and the consumer stopped after the 'error' message
C22_Witness ==
    /\ sm_gen = "stopped"
    /\ sm_run.raise_at = "LAB_NORMALIZE"
    /\ sm_put = << [type |-> "error"], EndOfStream >>
    /\ sm_yielded = << [type |-> "error"] >>

\* every request has completed: no worker is inside a handler
Quiescent == \A w \in DOMAIN requests : requests[w] = NoRequest

WritersAreRequests ==
    /\ \A x \in Range(current_case) \cup Range(current_output)
                \cup Range(current_output_json) : x \in 1..served
    /\ served <= MaxRequests

ClearLeavesNothing ==
    [][clear_current_case =>
          (current_case' = <<>> /\ current_output' = <<>> /\ current_output_json' = <<>>)]_vars

=============================================================================
